---- MODULE Spec2Model ----
(***************************************************************************)
(* Host-side syscall bridge of the Faasm WebAssembly runtime               *)
(* (src/src/wasm/syscalls.cpp): the per-thread descriptor registry, the    *)
(* whitelisted open, the multiplexed socketcall, the unsupported syscalls  *)
(* and the memory syscalls (mmap, munmap, brk).                            *)
(*                                                                         *)
(* Every handler is one action.  The host kernel and the WebAssembly       *)
(* runtime are the environment: a host call answers with any of the        *)
(* results the kernel can give, and the record `last` says what the most   *)
(* recent handler was called with, what it did to the host and what it     *)
(* handed back to the guest.                                               *)
(*                                                                         *)
(* The parallel runtime (src/src/wavm/openmp.cpp) is modelled step by      *)
(* step: __kmpc_fork_call in local mode with its team threads, the team's  *)
(* barrier and critical section, and __kmpc_fork_call in distributed mode  *)
(* with its sub-invocations, the shared accumulator and the scheduler's    *)
(* notifications.                                                          *)
(***************************************************************************)
EXTENDS Integers, FiniteSets, Sequences, TLC

VARIABLES
    openFds,      \* thread_local std::set<int> openFds, one per host thread
    started,      \* the host threads that exist
    hostFds,      \* the descriptors open in the host process (kernel table)
    granted,      \* history: per thread, what open/socket obtained from the host (>= 0) and the thread has not closed
    numPages,     \* getMemoryNumPages(memory)
    unmapped,     \* page indices handed to unmapMemoryPages
    brkReturned,  \* history: the values brk has returned so far
    last,         \* the most recent call: its arguments, host effect and result
    forkPc,       \* where the thread inside __kmpc_fork_call is
    forkCall,     \* what fork_call was called with: argc, and the team size its level asks for
    nextLevel,    \* the OMPLevel fork_call built for the team
    threadArgs,   \* std::vector<WasmThreadSpec> threadArgs
    platformThreads, \* how many host threads fork_call has created
    joined,       \* how many of them fork_call has joined
    numErrors,    \* I64 numErrors
    pc,           \* per team thread: where its microtask is
    exitCode,     \* per team thread: what its entry function returned
    calls,        \* history: per team thread, its calls of __kmpc_barrier
    returned,     \* history: per team thread, the barrier calls it came back from
    slotAtEntry,  \* per team thread: the barrier's slot when it began to wait
    barrierUses,  \* arrivals of the barrier's current round
    slotCount,    \* completed rounds of the barrier
    criticalSection, \* nextLevel->criticalSection: the team thread holding it, or -1
    shared,       \* the guest int the microtask increments
    tmp,          \* per team thread: the value of the int it has read
    incs,         \* history: per team thread, its increments of the int
    activeSnapshotKey, \* static std::string activeSnapshotKey
    reduceKey,    \* the long stored under REDUCE_KEY in the external store
    chainedThreads, \* per sub-invocation: how far it is and what it returned
    partials,     \* history: per sub-invocation, what it added to the accumulator
    awaited,      \* threadNum of the await loop
    outcome,      \* how the wait of the await loop's current turn ended
    failedWaits,  \* history: the waits that ended without a result or with a non-zero one
    returnCode,   \* int returnCode of the await loop's current turn
    notified,     \* history: calls of notifyAwaiting and notifyFinishedAwaiting
    guestWord,    \* the guest int that argument zero points to
    userNumDevice, \* int userNumDevice
    deviceReq,    \* history: the most recent omp_set_default_device call that was not ignored
    ompLast,      \* the most recent of the intrinsic calls whose result is kept: arguments and result
    reduceMutex,  \* thisLevel->reduceMutex of the team: the team thread holding it, or -1
    reduces,      \* history: per team thread, its calls of __kmpc_reduce(_nowait)
    loopIn,       \* the loop the team has come to: schedule, bounds, increment and chunk
    words,        \* per team thread: the guest words lastIter, lower, upper and stride
    mastered,     \* history: per team thread, what its most recent __kmpc_master returned, or -1
    topLevel,     \* thisLevel of the guest's main thread, which calls fork_call
    topLog,       \* history: the main thread's preference calls and parallel regions, in order
    guests,       \* per guest execution of the process: what it asked for and what its fork_calls did
    _shutdown,    \* WorkerThreadPool::_shutdown
    threadTokenPool, \* the thread tokens that are free
    bgThreads,    \* globalQueueThread, sharingQueueThread, mpiThread, stateThread, poolThread: how far each is
    poolPc,       \* where the pool thread is in its lambda
    threadIdx,    \* int threadIdx of the pool thread's loop
    poolThreads,  \* std::vector<std::thread> poolThreads: the token and the state of each worker
    mainPc        \* where the thread that starts and shuts down the pool is

sysVars == <<openFds, started, hostFds, granted, numPages, unmapped, brkReturned, last>>

forkVars == <<forkPc, forkCall, nextLevel, threadArgs, platformThreads, joined, numErrors>>
threadVars == <<pc, exitCode>>
barrierVars == <<calls, returned, slotAtEntry, barrierUses, slotCount>>
criticalVars == <<criticalSection, shared, tmp, incs>>

distVars ==
    <<activeSnapshotKey, reduceKey, chainedThreads, partials, awaited, outcome,
      failedWaits, returnCode, notified, guestWord>>

reduceVars == <<reduceMutex, reduces>>

loopVars == <<loopIn, words>>

topVars == <<topLevel, topLog>>

poolVars == <<_shutdown, threadTokenPool, bgThreads, poolPc, threadIdx, poolThreads, mainPc>>

procVars == <<guests, poolVars>>

levelVars == <<mastered, topVars, procVars>>

rtVars == <<userNumDevice, deviceReq, ompLast, reduceVars, loopVars, levelVars>>

ompVars == <<forkVars, threadVars, barrierVars, criticalVars, distVars, rtVars>>

vars == <<sysVars, ompVars>>

fdVars == <<openFds, started, hostFds, granted>>
memVars == <<numPages, unmapped, brkReturned>>

------------------------------------------------------------------------------
(* Bounds of the model *)

\* host descriptors are 0..MaxFd; 0, 1, 2 are stdin, stdout, stderr
MaxFd == 4
\* getMemoryMaxPages(memory) of the modelled module
MaxPages == 4
\* pages of the module's memory when the guest starts
InitPages == 2

\* largest team fork_call builds
MaxTeam == 3

\* barrier calls one team thread makes
MaxRounds == 2

\* largest argc of a microtask
MaxArgc == 2

\* reductions one team thread begins
MaxReduces == 1

\* largest upper bound of a loop
MaxUpper == 9

\* largest chunk of a loop
MaxChunk == 2

\* how many preference calls and parallel regions of the main thread are followed
MaxTopCalls == 4

\* fork_calls one guest execution makes
MaxGuestForks == 2

\* thread tokens of the worker pool
nThreads == 2

\* workers the pool thread spawns before shutdown is asked for
MaxSpawns == 3

------------------------------------------------------------------------------
(* Program constants *)

numBytesPerPage == 65536

sc_socket == 1
sc_bind == 2
sc_connect == 3
sc_listen == 4
sc_accept == 5
sc_getsockname == 6
sc_getpeername == 7
sc_socketpair == 8
sc_send == 9
sc_recv == 10
sc_sendto == 11
sc_recvfrom == 12
sc_shutdown == 13
sc_setsockopt == 14
sc_getsockopt == 15
sc_sendmsg == 16
sc_recvmsg == 17
sc_accept4 == 18
sc_recvmmsg == 19
sc_sendmmsg == 20

\* fileno(stdout)
STDOUT_FILENO == 1

------------------------------------------------------------------------------
(* Inputs *)

\* the host thread running the guest and a team thread created by fork_call
Threads == {"A", "B"}

\* descriptor values a guest may pass
FdArgs == {-1} \cup (0 .. MaxFd)

\* guest paths: the two whitelisted ones and one other
Paths == {"/etc/hosts", "/etc/resolv.conf", "/etc/passwd"}

\* open's mode argument: read-only, and 0644 octal
Modes == {0, 420}

\* open's flags argument: O_RDONLY and O_RDWR
Flags == {0, 2}

\* socketcall's op: the twenty of the enum and three outside it
Calls == (-1 .. 21)

\* return codes of a host call that creates no descriptor: failure and success
HostRets == {-1, 0}

\* answers of a host call that transfers bytes or counts ready descriptors
HostCounts == {-1, 1}

\* arguments of the syscalls that read none of them
AnyArgs == {0, 7}

------------------------------------------------------------------------------
(* The record of a call *)

NoCall ==
    [thread |-> "A", op |-> "none", call |-> 0, fd |-> -1, path |-> "", mode |-> 0,
     addr |-> 0, len |-> 0, pre |-> 0,
     res |-> "none", ret |-> 0,
     host |-> "none", hostFd |-> -1, hostRet |-> 0, wrote |-> FALSE,
     clock |-> -1, time |-> -1]

\* a call that threw calledUnimplementedIntrinsic
Trapped(c) == [c EXCEPT !.res = "trap"]

\* a call that returned r to the guest
Returned(c, r) == [c EXCEPT !.res = "ret", !.ret = r]

\* the host call a handler made: its name, descriptor argument and result
WithHost(c, name, fd, r) == [c EXCEPT !.host = name, !.hostFd = fd, !.hostRet = r]

------------------------------------------------------------------------------
(* The host kernel *)

RECURSIVE LowestFree(_, _)
LowestFree(open, n) ==
    IF n > MaxFd THEN -1
    ELSE IF n \notin open THEN n
    ELSE LowestFree(open, n + 1)

\* what open(2) / socket(2) can answer: the lowest free descriptor, or -1
HostNewFd == {-1} \cup {LowestFree(hostFds, 0)}

\* the kernel table after a descriptor-creating call answered fd
HostOpened(fd) == IF fd >= 0 THEN hostFds \cup {fd} ELSE hostFds

------------------------------------------------------------------------------
(* Descriptor registry and path whitelist *)

\* a registry that is one set for the whole process instead of one per thread
checkThreadOwnsFd_ProcessWide(t, fd) == \E u \in Threads : fd \in openFds[u]

\* checkThreadOwnsFd passes (does not throw) exactly when this holds
checkThreadOwnsFd(t, fd) == fd \in openFds[t]

\* a whitelist that also lets /etc/passwd through
HostPath_WithPasswd(path) ==
    IF path = "/etc/hosts" THEN "/usr/share/faasm/net/hosts"
    ELSE IF path = "/etc/resolv.conf" THEN "/usr/share/faasm/net/resolv.conf"
    ELSE IF path = "/etc/passwd" THEN "/etc/passwd"
    ELSE ""

\* the host file a guest path is mapped to; "" when open leaves fd = -1
HostPath(path) ==
    IF path = "/etc/hosts" THEN "/usr/share/faasm/net/hosts"
    ELSE IF path = "/etc/resolv.conf" THEN "/usr/share/faasm/net/resolv.conf"
    ELSE ""

\* open's test of the host descriptor before it registers it
OpenSucceeded(fd) == fd > 0

\* what socket puts into the registry for the host's answer sock
SocketRegisters(sock) == {sock}

\* a new host thread's thread_local openFds
InitialFds(parent) == {}

Grant(t, fd) == IF fd >= 0 THEN [granted EXCEPT ![t] = @ \cup {fd}] ELSE granted

------------------------------------------------------------------------------
(* File I/O handlers *)

syscall_open(t, path, flags, mode) ==
    LET c == [NoCall EXCEPT !.thread = t, !.op = "open", !.path = path, !.mode = mode] IN
    /\ t \in started
    /\ UNCHANGED ompVars
    /\ UNCHANGED <<started, memVars>>
    /\ IF mode # 0
       THEN /\ last' = Trapped(c)
            /\ UNCHANGED <<openFds, hostFds, granted>>
       ELSE IF HostPath(path) # ""
       THEN \E fd \in HostNewFd :
              /\ hostFds' = HostOpened(fd)
              /\ granted' = Grant(t, fd)
              /\ IF OpenSucceeded(fd)
                 THEN /\ openFds' = [openFds EXCEPT ![t] = @ \cup {fd}]
                      /\ last' = Returned(WithHost(c, "open", -1, fd), fd)
                 ELSE /\ UNCHANGED openFds
                      /\ last' = Trapped(WithHost(c, "open", -1, fd))
       ELSE /\ last' = Trapped(c)
            /\ UNCHANGED <<openFds, hostFds, granted>>

\* a stub that forgets the ownership check
syscall_fcntl64_Unchecked(t, fd) ==
    /\ t \in started
    /\ UNCHANGED ompVars
    /\ UNCHANGED <<fdVars, memVars>>
    /\ last' = Returned([NoCall EXCEPT !.thread = t, !.op = "fcntl64", !.fd = fd], 0)

syscall_fcntl64(t, fd) ==
    LET c == [NoCall EXCEPT !.thread = t, !.op = "fcntl64", !.fd = fd] IN
    /\ t \in started
    /\ UNCHANGED ompVars
    /\ UNCHANGED <<fdVars, memVars>>
    /\ IF checkThreadOwnsFd(t, fd)
       THEN last' = Returned(c, 0)
       ELSE last' = Trapped(c)

syscall_read(t, fd) ==
    LET c == [NoCall EXCEPT !.thread = t, !.op = "read", !.fd = fd] IN
    /\ t \in started
    /\ UNCHANGED ompVars
    /\ UNCHANGED <<fdVars, memVars>>
    /\ IF checkThreadOwnsFd(t, fd)
       THEN \E r \in HostCounts :
              last' = Returned([WithHost(c, "read", fd, r) EXCEPT !.wrote = (r > 0)], r)
       ELSE last' = Trapped(c)

\* a close that closes the host descriptor and leaves it in the registry
syscall_close_NoErase(t, fd) ==
    LET c == [NoCall EXCEPT !.thread = t, !.op = "close", !.fd = fd] IN
    /\ t \in started
    /\ UNCHANGED ompVars
    /\ UNCHANGED <<started, memVars, openFds, granted>>
    /\ IF checkThreadOwnsFd(t, fd)
       THEN /\ hostFds' = hostFds \ {fd}
            /\ last' = Returned(WithHost(c, "close", fd, IF fd \in hostFds THEN 0 ELSE -1), 0)
       ELSE /\ last' = Trapped(c)
            /\ UNCHANGED hostFds

syscall_close(t, fd) ==
    LET c == [NoCall EXCEPT !.thread = t, !.op = "close", !.fd = fd] IN
    /\ t \in started
    /\ UNCHANGED ompVars
    /\ UNCHANGED <<started, memVars>>
    /\ IF checkThreadOwnsFd(t, fd)
       THEN /\ openFds' = [openFds EXCEPT ![t] = @ \ {fd}]
            /\ hostFds' = hostFds \ {fd}
            /\ granted' = [granted EXCEPT ![t] = @ \ {fd}]
            /\ last' = Returned(WithHost(c, "close", fd, IF fd \in hostFds THEN 0 ELSE -1), 0)
       ELSE /\ last' = Trapped(c)
            /\ UNCHANGED <<openFds, hostFds, granted>>

syscall_poll(t, nfds, fd) ==
    LET c == [NoCall EXCEPT !.thread = t, !.op = "poll", !.fd = fd, !.len = nfds] IN
    /\ t \in started
    /\ UNCHANGED ompVars
    /\ UNCHANGED <<fdVars, memVars>>
    /\ IF nfds # 1
       THEN last' = Trapped([c EXCEPT !.fd = -1])
       ELSE IF checkThreadOwnsFd(t, fd)
       THEN \E r \in HostCounts :
              last' = Returned([WithHost(c, "poll", fd, r) EXCEPT !.wrote = (r > 0)], r)
       ELSE last' = Trapped(c)

syscall_ioctl(t, fd) ==
    LET c == [NoCall EXCEPT !.thread = t, !.op = "ioctl", !.fd = fd] IN
    /\ t \in started
    /\ UNCHANGED ompVars
    /\ UNCHANGED <<fdVars, memVars>>
    /\ last' = Returned(c, 0)

\* a writev that writes to the descriptor the guest names
syscall_writev_ToFd(t, fd) ==
    LET c == [NoCall EXCEPT !.thread = t, !.op = "writev", !.fd = fd] IN
    /\ t \in started
    /\ UNCHANGED ompVars
    /\ UNCHANGED <<fdVars, memVars>>
    /\ \E r \in HostCounts :
         last' = Returned(WithHost(c, "writev", fd, r), r)

\* the iovecs are gathered from guest memory and written to fileno(stdout); fd is
\* only printed
syscall_writev(t, fd) ==
    LET c == [NoCall EXCEPT !.thread = t, !.op = "writev", !.fd = fd] IN
    /\ t \in started
    /\ UNCHANGED ompVars
    /\ UNCHANGED <<fdVars, memVars>>
    /\ \E r \in HostCounts :
         last' = Returned(WithHost(c, "writev", STDOUT_FILENO, r), r)

------------------------------------------------------------------------------
(* Timing *)

\* the clocks the host knows (CLOCK_REALTIME, CLOCK_MONOTONIC); any other id is EINVAL
HostClocks == {0, 1}

\* clock ids a guest passes
ClockIds == {0, 99}

\* tv_sec of the host clock, and what else the bytes of a timespec can hold
HostTime == 7
TimespecValues == {0, HostTime}

\* `actual` is a local the host fills only when its clock_gettime succeeds: after a
\* failure its bytes are whatever the stack held
ActualAfter(res) == IF res = 0 THEN {HostTime} ELSE TimespecValues

\* the host's answer is printed when it is not 0; the shadow timespec is written and
\* 0 returned either way
syscall_clock_gettime(t, clockId) ==
    LET c == [NoCall EXCEPT !.thread = t, !.op = "clock_gettime", !.clock = clockId]
        res == IF clockId \in HostClocks THEN 0 ELSE -1
    IN
    /\ t \in started
    /\ UNCHANGED ompVars
    /\ UNCHANGED <<fdVars, memVars>>
    /\ \E actual \in ActualAfter(res) :
         last' = Returned([WithHost(c, "clock_gettime", -1, res) EXCEPT
                             !.wrote = TRUE, !.time = actual], 0)

------------------------------------------------------------------------------
(* Sockets: the multiplexed socketcall *)

\* case sc_socket: the host's answer is registered and returned as it is
ScSocket(t, c) ==
    \E sock \in HostNewFd :
      /\ hostFds' = HostOpened(sock)
      /\ granted' = Grant(t, sock)
      /\ openFds' = [openFds EXCEPT ![t] = @ \cup SocketRegisters(sock)]
      /\ last' = Returned(WithHost(c, "socket", -1, sock), sock)

\* case sc_connect
ScConnect(t, c, sockfd) ==
    /\ UNCHANGED <<openFds, hostFds, granted>>
    /\ IF checkThreadOwnsFd(t, sockfd)
       THEN \E r \in HostRets :
              last' = Returned(WithHost([c EXCEPT !.fd = sockfd], "connect", sockfd, r), r)
       ELSE last' = Trapped([c EXCEPT !.fd = sockfd])

\* cases sc_recv, sc_recvfrom, sc_sendto, sc_send
ScSendRecv(t, c, sockfd) ==
    LET d == [c EXCEPT !.fd = sockfd]
        name == IF c.call = sc_send THEN "send"
                ELSE IF c.call = sc_recv THEN "recv"
                ELSE IF c.call = sc_sendto THEN "sendto"
                ELSE "recvfrom"
    IN
    /\ UNCHANGED <<openFds, hostFds, granted>>
    /\ IF checkThreadOwnsFd(t, sockfd)
       THEN \E r \in HostCounts :
              last' = Returned([WithHost(d, name, sockfd, r) EXCEPT
                                  !.wrote = IF name = "recvfrom" THEN TRUE
                                            ELSE IF name = "recv" THEN r > 0
                                            ELSE FALSE], r)
       ELSE last' = Trapped(d)

\* case sc_bind: the address is read from guest memory, then the check, then bind
ScBind(t, c, sockfd) ==
    /\ UNCHANGED <<openFds, hostFds, granted>>
    /\ IF checkThreadOwnsFd(t, sockfd)
       THEN \E r \in HostRets :
              last' = Returned(WithHost([c EXCEPT !.fd = sockfd], "bind", sockfd, r), r)
       ELSE last' = Trapped([c EXCEPT !.fd = sockfd])

\* case sc_getsockname: the address and its length are written back to the guest
ScGetsockname(t, c, sockfd) ==
    /\ UNCHANGED <<openFds, hostFds, granted>>
    /\ IF checkThreadOwnsFd(t, sockfd)
       THEN \E r \in HostRets :
              last' = Returned([WithHost([c EXCEPT !.fd = sockfd], "getsockname", sockfd, r)
                                  EXCEPT !.wrote = TRUE], r)
       ELSE last' = Trapped([c EXCEPT !.fd = sockfd])

\* the "unfinished" cases and default: return 0
ScStub(t, c) ==
    /\ UNCHANGED <<openFds, hostFds, granted>>
    /\ last' = Returned(c, 0)

\* the server-side ops stubbed like the unfinished ones
ScReject_AsStub(t, c) ==
    /\ UNCHANGED <<openFds, hostFds, granted>>
    /\ last' = Returned(c, 0)

\* cases sc_accept and sc_listen: throw
ScReject(t, c) ==
    /\ UNCHANGED <<openFds, hostFds, granted>>
    /\ last' = Trapped(c)

\* the ops the switch sends to the "unfinished" cases
StubCalls ==
    {sc_getpeername, sc_socketpair, sc_shutdown, sc_setsockopt, sc_getsockopt,
     sc_sendmsg, sc_recvmsg, sc_accept4, sc_recvmmsg, sc_sendmmsg}

\* sockfd is the first word of the argument array at argsPtr
syscall_socketcall(t, call, sockfd) ==
    LET c == [NoCall EXCEPT !.thread = t, !.op = "socketcall", !.call = call] IN
    /\ t \in started
    /\ UNCHANGED ompVars
    /\ UNCHANGED <<started, memVars>>
    /\ CASE call = sc_socket -> ScSocket(t, c)
         [] call = sc_connect -> ScConnect(t, c, sockfd)
         [] call \in {sc_recv, sc_recvfrom, sc_sendto, sc_send} -> ScSendRecv(t, c, sockfd)
         [] call = sc_bind -> ScBind(t, c, sockfd)
         [] call = sc_getsockname -> ScGetsockname(t, c, sockfd)
         [] call \in StubCalls -> ScStub(t, c)
         [] call \in {sc_accept, sc_listen} -> ScReject(t, c)
         [] OTHER -> ScStub(t, c)

------------------------------------------------------------------------------
(* Unsupported syscalls: every handler only throws *)

UnsupportedIO == {"readv", "llseek", "futex", "fstat64", "stat64", "access"}
UnsupportedTiming == {"gettimeofday"}
UnsupportedMisc ==
    {"unsupported_syscall", "exit_group", "exit", "gettid", "tkill", "rt_sigprocmask"}
UnsupportedMemory == {"madvise", "mremap"}

Unsupported == UnsupportedIO \cup UnsupportedTiming \cup UnsupportedMisc \cup UnsupportedMemory

syscall_unsupported(t, name, a) ==
    LET c == [NoCall EXCEPT !.thread = t, !.op = name] IN
    /\ t \in started
    /\ UNCHANGED ompVars
    /\ UNCHANGED <<fdVars, memVars>>
    /\ last' = Trapped(c)

------------------------------------------------------------------------------
(* Team threads: fork_call creates host threads *)

\* The new thread's thread_local registry is constructed empty.  Handlers run one at
\* a time; the creating thread keeps making calls beside the new one, as any other
\* host thread of the process may.
createThread(parent, child) ==
    /\ parent \in started
    /\ UNCHANGED ompVars
    /\ child \notin started
    /\ started' = started \cup {child}
    /\ openFds' = [openFds EXCEPT ![child] = InitialFds(parent)]
    /\ granted' = [granted EXCEPT ![child] = {}]
    /\ last' = [NoCall EXCEPT !.thread = parent, !.op = "createThread"]
    /\ UNCHANGED <<hostFds, memVars>>

------------------------------------------------------------------------------
(* Guest linear memory, as the WebAssembly runtime keeps it *)

\* growMemory: the page count before the growth, or -1 when the maximum forbids it
GrowBase(n) == IF numPages + n <= MaxPages THEN numPages ELSE -1

\* the page count growMemory leaves
GrowPages(n) == IF numPages + n <= MaxPages THEN numPages + n ELSE numPages

\* unmapMemoryPages decommits the pages base .. base+n-1; the page count is not its business
UnmapPages(base, n) == unmapped \cup (base .. (base + n - 1))

\* the page count rounded down instead of up
CeilPages_Floor(length) == length \div numBytesPerPage

\* pages covering a byte length
CeilPages(length) == (length + numBytesPerPage - 1) \div numBytesPerPage

\* addr / numBytesPerPage of a U32 whose 32 bits are the signed value addr
\* (65536 = 2^32 / numBytesPerPage)
PageIndex(addr) ==
    IF addr >= 0 THEN addr \div numBytesPerPage
    ELSE (addr \div numBytesPerPage) + 65536

\* memory arguments
MmapLengths == {0, 1, numBytesPerPage, numBytesPerPage + 1, 130000}
MmapAddrs == {0, numBytesPerPage}
MunmapAddrs == {p * numBytesPerPage : p \in InitPages .. MaxPages} \cup {-numBytesPerPage}
BrkAddrs ==
    {p * numBytesPerPage + d : p \in 0 .. (MaxPages + 1), d \in {0, numBytesPerPage - 1}}
    \cup {-1}

------------------------------------------------------------------------------
(* Memory handlers *)

\* the value mmap hands back for growMemory's answer base
\* (below 2^15 pages the casts to U32 and I32 change nothing)
MmapReturn(base) == base * numBytesPerPage

\* an mmap that grows the memory before it looks at fd
syscall_mmap_GrowFirst(t, addr, length, fd) ==
    LET c == [NoCall EXCEPT !.thread = t, !.op = "mmap", !.addr = addr, !.len = length,
                            !.fd = fd, !.pre = numPages]
        n == CeilPages(length)
    IN
    /\ t \in started
    /\ UNCHANGED ompVars
    /\ UNCHANGED <<fdVars, unmapped, brkReturned>>
    /\ numPages' = GrowPages(n)
    /\ IF fd # -1
       THEN last' = Trapped(c)
       ELSE last' = Returned(WithHost(c, "growMemory", -1, GrowBase(n)),
                             MmapReturn(GrowBase(n)))

syscall_mmap(t, addr, length, fd) ==
    LET c == [NoCall EXCEPT !.thread = t, !.op = "mmap", !.addr = addr, !.len = length,
                            !.fd = fd, !.pre = numPages]
        n == CeilPages(length)
    IN
    /\ t \in started
    /\ UNCHANGED ompVars
    /\ UNCHANGED <<fdVars, unmapped, brkReturned>>
    /\ IF fd # -1
       THEN /\ last' = Trapped(c)
            /\ UNCHANGED numPages
       ELSE /\ numPages' = GrowPages(n)
            /\ last' = Returned(WithHost(c, "growMemory", -1, GrowBase(n)),
                                 MmapReturn(GrowBase(n)))

syscall_munmap(t, addr, length) ==
    LET c == [NoCall EXCEPT !.thread = t, !.op = "munmap", !.addr = addr, !.len = length,
                            !.pre = numPages]
    IN
    /\ t \in started
    /\ UNCHANGED ompVars
    /\ UNCHANGED <<fdVars, numPages, brkReturned>>
    /\ unmapped' = UnmapPages(PageIndex(addr), CeilPages(length))
    /\ last' = Returned(WithHost(c, "unmapMemoryPages", -1, 0), 0)

\* a brk that answers as Linux does, with the address asked for
BrkReturn_Requested(currentBreak, addr) == addr

\* what brk hands back: the break before any growth
BrkReturn(currentBreak, addr) == currentBreak

syscall_brk(t, addr) ==
    LET c == [NoCall EXCEPT !.thread = t, !.op = "brk", !.addr = addr, !.pre = numPages]
        targetPageCount == PageIndex(addr)
        currentPageCount == numPages
        currentBreak == currentPageCount * numBytesPerPage
        expansion == targetPageCount - currentPageCount
    IN
    /\ t \in started
    /\ UNCHANGED ompVars
    /\ UNCHANGED <<fdVars, unmapped>>
    /\ brkReturned' = brkReturned \cup {BrkReturn(currentBreak, addr)}
    /\ IF targetPageCount <= currentPageCount
       THEN /\ UNCHANGED numPages
            /\ last' = Returned(c, BrkReturn(currentBreak, addr))
       ELSE /\ numPages' = GrowPages(expansion)
            /\ last' = Returned(WithHost(c, "growMemory", -1, GrowBase(expansion)),
                                 BrkReturn(currentBreak, addr))

------------------------------------------------------------------------------
(* Devices: the switch between the local and the distributed fork *)

\* Number of devices available to each user by default
userMaxNumDevices == 3

\* what the guest passes to omp_set_default_device
DeviceArgs == (-userMaxNumDevices - 1) .. (userMaxNumDevices + 1)

\* abs
Abs(n) == IF n < 0 THEN -n ELSE n

\* no runtime intrinsic has been called yet
NoOmpCall == [call |-> "none", tid |-> -1, arg |-> 0, result |-> 0, thrown |-> FALSE]

\* a call of a runtime intrinsic by thread tid: what it returned (0 for void) and
\* whether it threw
OmpCall(call, tid, arg, result, thrown) ==
    [call |-> call, tid |-> tid, arg |-> arg, result |-> result, thrown |-> thrown]

\* omp_set_default_device: ignored beyond the device limit, otherwise the device
\* count is the argument without its sign
set_default_device(defaultDeviceNumber) ==
    /\ ompLast' = OmpCall("omp_set_default_device", -1, defaultDeviceNumber, 0, FALSE)
    /\ IF Abs(defaultDeviceNumber) > userMaxNumDevices
       THEN UNCHANGED <<userNumDevice, deviceReq>>
       ELSE /\ userNumDevice' = Abs(defaultDeviceNumber)
            /\ deviceReq' = [called |-> TRUE, arg |-> defaultDeviceNumber]

\* omp_set_default_device of the guest the other parts of the model follow
omp_set_default_device(defaultDeviceNumber) ==
    /\ set_default_device(defaultDeviceNumber)
    /\ UNCHANGED <<reduceVars, loopVars, levelVars>>
    /\ UNCHANGED <<sysVars, forkVars, threadVars, barrierVars, criticalVars, distVars>>

------------------------------------------------------------------------------
(* The parallel fork engine, local mode (src/src/wavm/openmp.cpp) *)

OMP_STACK_SIZE == 2 * 1048576

\* positions in platformThreads / threadArgs
TeamIds == 0 .. (MaxTeam - 1)

\* what get_next_level_num_threads() can answer
TeamSizes == 1 .. MaxTeam

\* return codes of a team thread's entry function
RetCodes == {-1, 0, 1}

\* thisLevel of the thread that calls fork_call, and the state before any fork
ThisLevel ==
    [id |-> 0, num_threads |-> 1, barrier |-> FALSE, depth |-> 0,
     pushed_num_threads |-> -1, wanted_num_threads |-> -1, max_active_level |-> 1]

\* OMPLevel(parent, num_threads): a team gets a barrier of num_threads participants
\* when it has more than one thread
OMPLevel(parent, n) ==
    [id |-> parent.id + 1, num_threads |-> n, barrier |-> n > 1, depth |-> parent.depth + 1,
     pushed_num_threads |-> -1, wanted_num_threads |-> -1,
     max_active_level |-> parent.max_active_level]

\* the argc guest pointers stored at argsPtr
Pointers(argc) == [i \in 1 .. argc |-> 8 * i]

\* microtaskArgs[threadNum]: {threadNum, argc} followed by the pointers
MicrotaskArgs(threadNum, argc) == <<threadNum, argc>> \o Pointers(argc)

\* one WasmThreadSpec
WasmThreadSpec(threadNum, argc, level) ==
    [tid |-> threadNum, level |-> level.id, stackSize |-> OMP_STACK_SIZE,
     funcArgs |-> MicrotaskArgs(threadNum, argc)]

\* the team is the threads fork_call has a spec for
Team == 0 .. (nextLevel.num_threads - 1)

\* fork_call up to the creation loop: the next level and every thread's arguments
fork_call_begin(nextNumThreads, argc) ==
    /\ forkPc = "idle"
    /\ 1 = userNumDevice
    /\ forkPc' = "create"
    /\ forkCall' = [argc |-> argc, nextNumThreads |-> nextNumThreads]
    /\ nextLevel' = OMPLevel(ThisLevel, nextNumThreads)
    /\ threadArgs' = [threadNum \in 0 .. (nextNumThreads - 1) |->
                        WasmThreadSpec(threadNum, argc, OMPLevel(ThisLevel, nextNumThreads))]
    /\ UNCHANGED <<platformThreads, joined, numErrors>>
    /\ UNCHANGED <<sysVars, rtVars, threadVars, barrierVars, criticalVars, distVars>>

\* one turn of the creation loop: Platform::createThread(0, ompThreadEntryFunc, &threadArgs[threadNum])
fork_call_createThread ==
    /\ forkPc = "create"
    /\ IF platformThreads < nextLevel.num_threads
       THEN /\ pc' = [pc EXCEPT ![platformThreads] = "run"]
            /\ platformThreads' = platformThreads + 1
            /\ UNCHANGED forkPc
       ELSE /\ forkPc' = "join"
            /\ UNCHANGED <<pc, platformThreads>>
    /\ UNCHANGED <<forkCall, nextLevel, threadArgs, joined, numErrors, exitCode>>
    /\ UNCHANGED <<sysVars, rtVars, barrierVars, criticalVars, distVars>>

\* a join that comes back from a thread still running
ThreadEnded_Running(k) == pc[k] # "none"

\* the thread's entry function has returned
ThreadEnded(k) == pc[k] = "done"

\* numErrors += Platform::joinThread(t)
JoinedErrors(errors, code) == errors + code

\* one turn of the join loop; joinThread blocks until the thread has ended
fork_call_joinThread ==
    /\ forkPc = "join"
    /\ joined < platformThreads
    /\ ThreadEnded(joined)
    /\ numErrors' = JoinedErrors(numErrors, exitCode[joined])
    /\ joined' = joined + 1
    /\ UNCHANGED <<forkPc, forkCall, nextLevel, threadArgs, platformThreads>>
    /\ UNCHANGED <<sysVars, rtVars, threadVars, barrierVars, criticalVars, distVars>>

\* after the join loop: if (numErrors) throw
fork_call_end ==
    /\ forkPc = "join"
    /\ joined = platformThreads
    /\ forkPc' = IF numErrors # 0 THEN "thrown" ELSE "returned"
    /\ UNCHANGED <<forkCall, nextLevel, threadArgs, platformThreads, joined, numErrors>>
    /\ UNCHANGED <<sysVars, rtVars, threadVars, barrierVars, criticalVars, distVars>>

\* the entry function of a team thread returns
microtask_return(k, code) ==
    /\ pc[k] = "run"
    /\ pc' = [pc EXCEPT ![k] = "done"]
    /\ exitCode' = [exitCode EXCEPT ![k] = code]
    /\ UNCHANGED <<sysVars, rtVars, forkVars, barrierVars, criticalVars, distVars>>

------------------------------------------------------------------------------
(* Team state: barrier and critical section of the team's level *)

\* a barrier that lets a round go one arrival early
BarrierFull_OneShort(uses, n) == uses >= n - 1

\* Barrier::wait: the round is complete with the arrival of the last participant
BarrierFull(uses, n) == uses = n

\* __kmpc_barrier of team thread k: nothing without a barrier or in a team of one,
\* otherwise barrier->wait(), which the last arrival of the round does not block in
kmpc_barrier(k) ==
    /\ pc[k] = "run"
    /\ calls[k] < MaxRounds
    /\ calls' = [calls EXCEPT ![k] = @ + 1]
    /\ IF ~nextLevel.barrier \/ nextLevel.num_threads <= 1
       THEN /\ returned' = [returned EXCEPT ![k] = @ + 1]
            /\ UNCHANGED <<pc, slotAtEntry, barrierUses, slotCount>>
       ELSE IF BarrierFull(barrierUses + 1, nextLevel.num_threads)
       THEN /\ barrierUses' = 0
            /\ slotCount' = slotCount + 1
            /\ returned' = [returned EXCEPT ![k] = @ + 1]
            /\ UNCHANGED <<pc, slotAtEntry>>
       ELSE /\ barrierUses' = barrierUses + 1
            /\ slotAtEntry' = [slotAtEntry EXCEPT ![k] = slotCount]
            /\ pc' = [pc EXCEPT ![k] = "wait"]
            /\ UNCHANGED <<returned, slotCount>>
    /\ UNCHANGED <<sysVars, rtVars, forkVars, exitCode, criticalVars, distVars>>

\* a thread waiting in the barrier is woken once its round is complete
barrier_wake(k) ==
    /\ pc[k] = "wait"
    /\ slotAtEntry[k] < slotCount
    /\ pc' = [pc EXCEPT ![k] = "run"]
    /\ returned' = [returned EXCEPT ![k] = @ + 1]
    /\ UNCHANGED <<calls, slotAtEntry, barrierUses, slotCount>>
    /\ UNCHANGED <<sysVars, rtVars, forkVars, exitCode, criticalVars, distVars>>

\* a critical that takes the lock in every team
CriticalLocks_Always(n) == TRUE

\* a critical that never takes the lock
CriticalLocks_Never(n) == FALSE

\* __kmpc_critical and __kmpc_end_critical touch the mutex only in a team of several
CriticalLocks(n) == n > 1

\* __kmpc_critical of team thread k: criticalSection.lock() blocks while another holds it
kmpc_critical(k) ==
    /\ pc[k] = "run"
    /\ incs[k] = 0
    /\ IF CriticalLocks(nextLevel.num_threads)
       THEN /\ criticalSection = -1
            /\ criticalSection' = k
       ELSE UNCHANGED criticalSection
    /\ pc' = [pc EXCEPT ![k] = "locked"]
    /\ UNCHANGED <<shared, tmp, incs, exitCode>>
    /\ UNCHANGED <<sysVars, rtVars, forkVars, barrierVars, distVars>>

\* the guest's x++ inside the critical section, first half: load x
guest_load(k) ==
    /\ pc[k] = "locked"
    /\ tmp' = [tmp EXCEPT ![k] = shared]
    /\ pc' = [pc EXCEPT ![k] = "loaded"]
    /\ UNCHANGED <<criticalSection, shared, incs, exitCode>>
    /\ UNCHANGED <<sysVars, rtVars, forkVars, barrierVars, distVars>>

\* second half: store x + 1
guest_store(k) ==
    /\ pc[k] = "loaded"
    /\ shared' = tmp[k] + 1
    /\ incs' = [incs EXCEPT ![k] = @ + 1]
    /\ pc' = [pc EXCEPT ![k] = "stored"]
    /\ UNCHANGED <<criticalSection, tmp, exitCode>>
    /\ UNCHANGED <<sysVars, rtVars, forkVars, barrierVars, distVars>>

\* __kmpc_end_critical of team thread k
kmpc_end_critical(k) ==
    /\ pc[k] = "stored"
    /\ IF CriticalLocks(nextLevel.num_threads)
       THEN criticalSection' = -1
       ELSE UNCHANGED criticalSection
    /\ pc' = [pc EXCEPT ![k] = "run"]
    /\ UNCHANGED <<shared, tmp, incs, exitCode>>
    /\ UNCHANGED <<sysVars, rtVars, forkVars, barrierVars, distVars>>

------------------------------------------------------------------------------
(* The parallel fork engine, distributed mode *)

\* what the guest int holds when fork_call is entered
GuestWordBefore == 9

\* what an earlier fork, of any call, can have left under REDUCE_KEY
StaleSums == {0, 5}

\* the partial value sub-invocation i has for the accumulator
PartialOf(i) == i + 1

\* how a wait for a result can end
Outcomes == {"result", "timeout", "error"}

\* a sub-invocation before callFunction
NotSubmitted == [state |-> "none", returnvalue |-> 0]

\* the id of the executing call
CallId == "1"

\* fmt::format("omp_snapshot_{}", callId)
SnapshotKey(callId) == "omp_snapshot_" \o callId

\* what the master's await loop keeps
awaitVars == <<awaited, outcome, failedWaits, returnCode, notified>>

\* the store holds one REDUCE_KEY for every call: another fork has left its sum there
other_fork_leaves(v) ==
    /\ forkPc = "idle"
    /\ reduceKey # v
    /\ reduceKey' = v
    /\ UNCHANGED <<activeSnapshotKey, chainedThreads, partials, awaitVars, guestWord>>
    /\ UNCHANGED <<sysVars, rtVars, forkVars, threadVars, barrierVars, criticalVars>>

\* an accumulator that keeps what it held
SetLong_Kept(old, new) == old

\* redis.setLong(REDUCE_KEY, 0)
SetLong(old, new) == new

\* fork_call up to the submission loop: the accumulator is zeroed, then the module
\* is snapshotted unless this process has a snapshot key already, which throws
dist_fork_begin(nextNumThreads, argc) ==
    /\ forkPc \in {"idle", "returned", "thrown"}
    /\ 1 # userNumDevice
    /\ reduceKey' = SetLong(reduceKey, 0)
    /\ IF activeSnapshotKey = ""
       THEN /\ activeSnapshotKey' = SnapshotKey(CallId)
            /\ forkCall' = [argc |-> argc, nextNumThreads |-> nextNumThreads]
            /\ forkPc' = "submit"
       ELSE /\ forkPc' = "bound"
            /\ UNCHANGED <<activeSnapshotKey, forkCall>>
    /\ UNCHANGED <<nextLevel, threadArgs, platformThreads, joined, numErrors>>
    /\ UNCHANGED <<chainedThreads, partials, awaitVars, guestWord>>
    /\ UNCHANGED <<sysVars, rtVars, threadVars, barrierVars, criticalVars>>

\* one turn of the submission loop: sch.callFunction(call)
dist_callFunction ==
    /\ forkPc = "submit"
    /\ IF platformThreads < forkCall.nextNumThreads
       THEN /\ chainedThreads' = [chainedThreads EXCEPT ![platformThreads].state = "running"]
            /\ platformThreads' = platformThreads + 1
            /\ UNCHANGED forkPc
       ELSE /\ forkPc' = "await"
            /\ UNCHANGED <<chainedThreads, platformThreads>>
    /\ UNCHANGED <<forkCall, nextLevel, threadArgs, joined, numErrors>>
    /\ UNCHANGED <<activeSnapshotKey, reduceKey, partials, awaitVars, guestWord>>
    /\ UNCHANGED <<sysVars, rtVars, threadVars, barrierVars, criticalVars>>

\* a sub-invocation's __kmpc_reduce_nowait: redis.incrByLong(REDUCE_KEY, partial)
sub_reduce_nowait(i) ==
    /\ chainedThreads[i].state = "running"
    /\ partials[i] = 0
    /\ reduceKey' = reduceKey + PartialOf(i)
    /\ partials' = [partials EXCEPT ![i] = PartialOf(i)]
    /\ UNCHANGED <<activeSnapshotKey, chainedThreads, awaitVars, guestWord>>
    /\ UNCHANGED <<sysVars, rtVars, forkVars, threadVars, barrierVars, criticalVars>>

\* a sub-invocation ends and its result is published
sub_finish(i, code) ==
    /\ chainedThreads[i].state = "running"
    /\ chainedThreads' = [chainedThreads EXCEPT ![i] = [state |-> "done", returnvalue |-> code]]
    /\ UNCHANGED <<activeSnapshotKey, reduceKey, partials, awaitVars, guestWord>>
    /\ UNCHANGED <<sysVars, rtVars, forkVars, threadVars, barrierVars, criticalVars>>

\* top of the await loop: scheduler.notifyAwaiting(*msg), or the loop is over
dist_notifyAwaiting ==
    /\ forkPc = "await"
    /\ IF awaited < forkCall.nextNumThreads
       THEN /\ notified' = [notified EXCEPT !.awaiting = @ + 1]
            /\ forkPc' = "waiting"
       ELSE /\ forkPc' = IF numErrors # 0 THEN "thrown" ELSE "store"
            /\ UNCHANGED notified
    /\ UNCHANGED <<forkCall, nextLevel, threadArgs, platformThreads, joined, numErrors>>
    /\ UNCHANGED <<awaited, outcome, failedWaits, returnCode>>
    /\ UNCHANGED <<activeSnapshotKey, reduceKey, chainedThreads, partials, guestWord>>
    /\ UNCHANGED <<sysVars, rtVars, threadVars, barrierVars, criticalVars>>

\* a wait that takes a timeout or an exception for success
ReturnCodeOf_FailureIsZero(o, value) == IF o = "result" THEN value ELSE 0

\* int returnCode = 1; only a result replaces it
ReturnCodeOf(o, value) == IF o = "result" THEN value ELSE 1

\* bus.getFunctionResult(chainedThreads[threadNum], callTimeoutMs): the result once
\* the sub-invocation has ended, a timeout while it has not, or another exception
dist_getFunctionResult(o) ==
    /\ forkPc = "waiting"
    /\ o = "result" => chainedThreads[awaited].state = "done"
    /\ o = "timeout" => chainedThreads[awaited].state # "done"
    /\ returnCode' = ReturnCodeOf(o, chainedThreads[awaited].returnvalue)
    /\ outcome' = o
    /\ failedWaits' = IF o = "result" /\ chainedThreads[awaited].returnvalue = 0
                      THEN failedWaits ELSE failedWaits + 1
    /\ forkPc' = "waited"
    /\ UNCHANGED <<forkCall, nextLevel, threadArgs, platformThreads, joined, numErrors>>
    /\ UNCHANGED <<awaited, notified>>
    /\ UNCHANGED <<activeSnapshotKey, reduceKey, chainedThreads, partials, guestWord>>
    /\ UNCHANGED <<sysVars, rtVars, threadVars, barrierVars, criticalVars>>

\* a master that reports back only after a wait that gave a result
FinishedAfter_ResultOnly(n, o) == IF o = "result" THEN n + 1 ELSE n

\* scheduler.notifyFinishedAwaiting(*msg) follows the try block on every path
FinishedAfter(n, o) == n + 1

\* rest of the turn: notifyFinishedAwaiting, then if (returnCode) numErrors++
dist_notifyFinishedAwaiting ==
    /\ forkPc = "waited"
    /\ notified' = [notified EXCEPT !.finished = FinishedAfter(@, outcome)]
    /\ numErrors' = IF returnCode # 0 THEN numErrors + 1 ELSE numErrors
    /\ awaited' = awaited + 1
    /\ forkPc' = "await"
    /\ UNCHANGED <<forkCall, nextLevel, threadArgs, platformThreads, joined>>
    /\ UNCHANGED <<outcome, failedWaits, returnCode>>
    /\ UNCHANGED <<activeSnapshotKey, reduceKey, chainedThreads, partials, guestWord>>
    /\ UNCHANGED <<sysVars, rtVars, threadVars, barrierVars, criticalVars>>

\* *reducePtr = redis.getLong(REDUCE_KEY); reducePtr is still nullptr when argc is 0
dist_store ==
    /\ forkPc = "store"
    /\ IF forkCall.argc > 0
       THEN /\ guestWord' = reduceKey
            /\ forkPc' = "returned"
       ELSE /\ forkPc' = "crashed"
            /\ UNCHANGED guestWord
    /\ UNCHANGED <<forkCall, nextLevel, threadArgs, platformThreads, joined, numErrors>>
    /\ UNCHANGED <<activeSnapshotKey, reduceKey, chainedThreads, partials, awaitVars>>
    /\ UNCHANGED <<sysVars, rtVars, threadVars, barrierVars, criticalVars>>

------------------------------------------------------------------------------
(* Reductions *)

critical_reduce_block == 256
atomic_reduce_block == 512
tree_reduce_block == 768
empty_reduce_block == 1024

\* util::getSystemConfig().stateMode
StateModes == {"redis", "inmemory"}

\* a selection that never asks for the mutex
determineReductionMethod_AlwaysEmpty(num_threads) == empty_reduce_block

\* determineReductionMethod
determineReductionMethod(num_threads) ==
    IF num_threads = 1 THEN empty_reduce_block ELSE critical_reduce_block

\* retVal of startReduction
RetVal(method) ==
    CASE method = critical_reduce_block -> 1
      [] method = empty_reduce_block -> 1
      [] method = atomic_reduce_block -> 2
      [] OTHER -> 0

\* where the guest goes with what the call returned: on 1 it combines and then
\* calls the matching end function, on anything else it goes on
AfterReduce(retVal, section) == IF retVal = 1 THEN section ELSE "run"

\* startReduction of team thread k, called from the intrinsic of the section:
\* reduceMutex.lock() blocks while another thread holds the mutex
startReduction(k, call, section) ==
    /\ IF determineReductionMethod(nextLevel.num_threads) = critical_reduce_block
       THEN /\ reduceMutex = -1
            /\ reduceMutex' = k
       ELSE UNCHANGED reduceMutex
    /\ ompLast' = OmpCall(call, k, 0, RetVal(determineReductionMethod(nextLevel.num_threads)), FALSE)
    /\ pc' = [pc EXCEPT ![k] = AfterReduce(RetVal(determineReductionMethod(nextLevel.num_threads)), section)]

\* endReduction of team thread k
endReduction(k) ==
    IF nextLevel.num_threads > 1 THEN reduceMutex' = -1 ELSE UNCHANGED reduceMutex

\* __kmpc_reduce of team thread k
kmpc_reduce(k) ==
    /\ pc[k] = "run"
    /\ reduces[k] < MaxReduces
    /\ reduces' = [reduces EXCEPT ![k] = @ + 1]
    /\ startReduction(k, "__kmpc_reduce", "reduce")
    /\ UNCHANGED <<userNumDevice, deviceReq, loopVars, levelVars, exitCode>>
    /\ UNCHANGED <<sysVars, forkVars, barrierVars, criticalVars, distVars>>

\* __kmpc_reduce_nowait of team thread k: with one device the partial value goes to
\* the external accumulator, otherwise startReduction
kmpc_reduce_nowait(k, stateMode) ==
    /\ pc[k] = "run"
    /\ reduces[k] < MaxReduces
    /\ reduces' = [reduces EXCEPT ![k] = @ + 1]
    /\ IF 1 = userNumDevice
       THEN /\ IF stateMode = "redis"
               THEN /\ reduceKey' = reduceKey + PartialOf(k)
                    /\ ompLast' = OmpCall("__kmpc_reduce_nowait", k, PartialOf(k), empty_reduce_block, FALSE)
                    /\ UNCHANGED pc
               ELSE /\ pc' = [pc EXCEPT ![k] = "thrown"]
                    /\ ompLast' = OmpCall("__kmpc_reduce_nowait", k, PartialOf(k), 0, TRUE)
                    /\ UNCHANGED reduceKey
            /\ UNCHANGED reduceMutex
       ELSE /\ startReduction(k, "__kmpc_reduce_nowait", "reduce_nowait")
            /\ UNCHANGED reduceKey
    /\ UNCHANGED <<userNumDevice, deviceReq, loopVars, levelVars, exitCode>>
    /\ UNCHANGED <<activeSnapshotKey, chainedThreads, partials, awaitVars, guestWord>>
    /\ UNCHANGED <<sysVars, forkVars, barrierVars, criticalVars>>

\* an end function that unlocks whatever the device count is
EndThrows_Never(numDevice) == FALSE

\* the end functions throw "End reduce called in distributed context"
EndThrows(numDevice) == ~(1 = numDevice)

\* the body the two end functions share
end_reduce(k, call) ==
    /\ IF EndThrows(userNumDevice)
       THEN /\ pc' = [pc EXCEPT ![k] = "thrown"]
            /\ ompLast' = OmpCall(call, k, 0, 0, TRUE)
            /\ UNCHANGED reduceMutex
       ELSE /\ endReduction(k)
            /\ ompLast' = OmpCall(call, k, 0, 0, FALSE)
            /\ pc' = [pc EXCEPT ![k] = "run"]
    /\ UNCHANGED <<userNumDevice, deviceReq, reduces, loopVars, levelVars, exitCode>>
    /\ UNCHANGED <<sysVars, forkVars, barrierVars, criticalVars, distVars>>

\* __kmpc_end_reduce of team thread k
kmpc_end_reduce(k) ==
    /\ pc[k] = "reduce"
    /\ end_reduce(k, "__kmpc_end_reduce")

\* __kmpc_end_reduce_nowait of team thread k
kmpc_end_reduce_nowait(k) ==
    /\ pc[k] = "reduce_nowait"
    /\ end_reduce(k, "__kmpc_end_reduce_nowait")

------------------------------------------------------------------------------
(* Static loop partition *)

sch_static_chunked == 33
sch_static == 34

\* schedule values the guest passes: the two implemented ones and another
Schedules == {sch_static_chunked, sch_static, 35}

\* loop bounds, increments and chunks of the guest's loops
Lowers == {0, 3}
Uppers == -2 .. MaxUpper
Incrs == {-2, -1, 0, 1, 2}
Chunks == 0 .. MaxChunk

\* int division: the quotient is truncated toward zero (b > 0)
CDiv(a, b) == IF a >= 0 THEN a \div b ELSE -((-a) \div b)

\* a < b for two unsigned ints given by their 32 bits read as ints
ULess(a, b) == IF (a < 0) = (b < 0) THEN a < b ELSE b < 0

\* (2^32 - 1) / chunk % num_threads computed from the 16-bit halves of 2^32 - 1
UMaxDivMod(chunk, num_threads) ==
    ((((65535 \div chunk) % num_threads) * (65536 % num_threads))
        + ((((65535 % chunk) * 65536 + 65535) \div chunk) % num_threads)) % num_threads

\* ((tripCount - 1) / (unsigned int) chunk) % num_threads; tripCount - 1 wraps at zero
LastChunkOwner(tripCount, chunk, num_threads) ==
    IF tripCount = 0
    THEN UMaxDivMod(chunk, num_threads)
    ELSE ((tripCount - 1) \div chunk) % num_threads

\* unsigned int tripCount, for an increment that is not zero
TripCount(lower, upper, incr) ==
    IF incr = 1 THEN upper - lower + 1
    ELSE IF incr = -1 THEN lower - upper + 1
    ELSE IF incr > 0 THEN CDiv(upper - lower, incr) + 1
    ELSE CDiv(lower - upper, -incr) + 1

\* what the division by a zero increment leaves in tripCount where it does not trap
TripCountDivZero == 1

\* the loops a guest comes to: those with iterations, and the empty ones whose
\* upper bound is one increment before the lower bound
WellFormed(in) ==
    \/ in.incr > 0 /\ (in.upper >= in.lower \/ in.upper = in.lower - in.incr)
    \/ in.incr < 0 /\ (in.upper <= in.lower \/ in.upper = in.lower - in.incr)
    \/ in.incr = 0

\* the chunk is 1 where the schedule has none
LoopInputs ==
    {in \in [schedule : Schedules, lower : Lowers, upper : Uppers, incr : Incrs, chunk : Chunks] :
        WellFormed(in) /\ (in.schedule = sch_static_chunked \/ in.chunk = 1)}

\* before the team has come to a loop
NoLoop == [schedule |-> 0, lower |-> 0, upper |-> 0, incr |-> 0, chunk |-> 0]

\* the words as the guest sets them before the call
Fresh(in) == [lastIter |-> 0, lower |-> in.lower, upper |-> in.upper, stride |-> 1]

\* bool stored in an I32
Flag(b) == IF b THEN 1 ELSE 0

\* a solo branch whose stride is the span of the bounds with the sign of the increment
SoloInit_SpanBySign(w, incr) ==
    [w EXCEPT !.lastIter = 1,
              !.stride = (w.upper - w.lower + 1) * (IF incr > 0 THEN 1 ELSE -1)]

\* the branch for a team of one thread
SoloInit(w, incr) ==
    [w EXCEPT !.lastIter = 1,
              !.stride = IF incr > 0 THEN w.upper - w.lower + 1 ELSE -(w.lower - w.upper + 1)]

\* case sch_static_chunked
ChunkedInit(num_threads, tid, w, incr, chunk0, tripCount) ==
    LET chunk == IF chunk0 < 1 THEN 1 ELSE chunk0
        span == chunk * incr
        lower == w.lower + (span * tid)
    IN  [lastIter |-> Flag(tid = LastChunkOwner(tripCount, chunk, num_threads)),
         lower |-> lower,
         upper |-> lower + span - incr,
         stride |-> span * num_threads]

\* a balanced partition that gives every thread the small chunk
BalancedInit_NoExtras(num_threads, tid, w, incr, tripCount) ==
    LET small_chunk == tripCount \div num_threads
        lower == w.lower + incr * (tid * small_chunk)
    IN  [lastIter |-> Flag(tid = num_threads - 1),
         lower |-> lower,
         upper |-> lower + small_chunk * incr - incr,
         stride |-> tripCount]

\* case sch_static with at least as many iterations as threads
BalancedInit(num_threads, tid, w, incr, tripCount) ==
    LET small_chunk == tripCount \div num_threads
        extras == tripCount % num_threads
        lower == w.lower + incr * (tid * small_chunk + (IF ULess(tid, extras) THEN tid ELSE extras))
    IN  [lastIter |-> Flag(tid = num_threads - 1),
         lower |-> lower,
         upper |-> lower + small_chunk * incr - (IF ULess(tid, extras) THEN 0 ELSE incr),
         stride |-> tripCount]

\* a small-trip-count case in which the threads without an iteration keep the bounds
SmallInit_KeepsBounds(tid, w, incr, tripCount) ==
    [lastIter |-> Flag(tid = tripCount - 1),
     lower |-> IF ULess(tid, tripCount) THEN w.lower + tid * incr ELSE w.lower,
     upper |-> IF ULess(tid, tripCount) THEN w.lower + tid * incr ELSE w.upper,
     stride |-> tripCount]

\* case sch_static with fewer iterations than threads
SmallInit(tid, w, incr, tripCount) ==
    [lastIter |-> Flag(tid = tripCount - 1),
     lower |-> IF ULess(tid, tripCount) THEN w.lower + tid * incr ELSE w.upper + incr,
     upper |-> IF ULess(tid, tripCount) THEN w.lower + tid * incr ELSE w.upper,
     stride |-> tripCount]

\* a switch whose default is the balanced partition
ScheduleSwitch_DefaultStatic(num_threads, tid, schedule, w, incr, chunk, tripCount) ==
    CASE schedule = sch_static_chunked ->
            [thrown |-> FALSE, words |-> ChunkedInit(num_threads, tid, w, incr, chunk, tripCount)]
      [] OTHER ->
            [thrown |-> FALSE,
             words |-> IF ULess(tripCount, num_threads)
                       THEN SmallInit(tid, w, incr, tripCount)
                       ELSE BalancedInit(num_threads, tid, w, incr, tripCount)]

\* the switch on the schedule: the words it leaves, and whether it throws
ScheduleSwitch(num_threads, tid, schedule, w, incr, chunk, tripCount) ==
    CASE schedule = sch_static_chunked ->
            [thrown |-> FALSE, words |-> ChunkedInit(num_threads, tid, w, incr, chunk, tripCount)]
      [] schedule = sch_static ->
            [thrown |-> FALSE,
             words |-> IF ULess(tripCount, num_threads)
                       THEN SmallInit(tid, w, incr, tripCount)
                       ELSE BalancedInit(num_threads, tid, w, incr, tripCount)]
      [] OTHER -> [thrown |-> TRUE, words |-> w]

\* the guest's team comes to a loop: every thread has its own fresh words
loop_enter(in) ==
    /\ forkPc = "idle"
    /\ loopIn = NoLoop
    /\ loopIn' = in
    /\ words' = [k \in TeamIds |-> Fresh(in)]
    /\ UNCHANGED <<userNumDevice, deviceReq, ompLast, reduceVars, levelVars>>
    /\ UNCHANGED <<sysVars, forkVars, threadVars, barrierVars, criticalVars, distVars>>

\* __kmpc_for_static_init_4 of team thread k on its fresh words.  In a team of
\* several threads a zero increment divides by zero: the call traps, or goes on
\* with the quotient the machine leaves
kmpc_for_static_init_4(k, trap) ==
    /\ pc[k] = "run"
    /\ loopIn # NoLoop
    /\ words[k] = Fresh(loopIn)
    /\ IF nextLevel.num_threads = 1
       THEN /\ words' = [words EXCEPT ![k] = SoloInit(@, loopIn.incr)]
            /\ pc' = [pc EXCEPT ![k] = "loop"]
       ELSE IF loopIn.incr = 0 /\ trap
       THEN /\ pc' = [pc EXCEPT ![k] = "trapped"]
            /\ UNCHANGED words
       ELSE LET tripCount == IF loopIn.incr = 0
                             THEN TripCountDivZero
                             ELSE TripCount(words[k].lower, words[k].upper, loopIn.incr)
                out == ScheduleSwitch(nextLevel.num_threads, k, loopIn.schedule, words[k],
                                      loopIn.incr, loopIn.chunk, tripCount)
            IN  /\ words' = [words EXCEPT ![k] = out.words]
                /\ pc' = [pc EXCEPT ![k] = IF out.thrown THEN "thrown" ELSE "loop"]
    /\ UNCHANGED <<userNumDevice, deviceReq, ompLast, reduceVars, loopIn, levelVars, exitCode>>
    /\ UNCHANGED <<sysVars, forkVars, barrierVars, criticalVars, distVars>>

\* __kmpc_for_static_fini of team thread k: nothing but a log line
kmpc_for_static_fini(k) ==
    /\ pc[k] = "loop"
    /\ pc' = [pc EXCEPT ![k] = "run"]
    /\ UNCHANGED <<userNumDevice, deviceReq, ompLast, reduceVars, loopVars, levelVars, exitCode>>
    /\ UNCHANGED <<sysVars, forkVars, barrierVars, criticalVars, distVars>>

------------------------------------------------------------------------------
(* The team's level as its members see and set it *)

\* what the guest passes as globalTid
GlobalTids == {-1, 0, 1}

\* a master test that goes by the guest's argument
MasterRet_ByGlobalTid(thisThreadNumber, globalTid) == IF globalTid = 0 THEN 1 ELSE 0

\* thisThreadNumber == 0 ? 1 : 0
MasterRet(thisThreadNumber, globalTid) == IF thisThreadNumber = 0 THEN 1 ELSE 0

\* __kmpc_master of team thread k, whose thisThreadNumber is k; on 1 the guest runs
\* the master section and then calls __kmpc_end_master
kmpc_master(k, globalTid) ==
    /\ pc[k] = "run"
    /\ mastered' = [mastered EXCEPT ![k] = MasterRet(k, globalTid)]
    /\ ompLast' = OmpCall("__kmpc_master", k, globalTid, MasterRet(k, globalTid), FALSE)
    /\ pc' = [pc EXCEPT ![k] = IF MasterRet(k, globalTid) = 1 THEN "master" ELSE "run"]
    /\ UNCHANGED <<userNumDevice, deviceReq, reduceVars, loopVars, topVars, procVars, exitCode>>
    /\ UNCHANGED <<sysVars, forkVars, barrierVars, criticalVars, distVars>>

\* __kmpc_end_master of team thread k: WAVM_ASSERT(globalTid == 0 && thisThreadNumber == 0)
\* ends the process in a build that keeps its assertions
kmpc_end_master(k, globalTid, asserts) ==
    /\ pc[k] = "master"
    /\ pc' = [pc EXCEPT ![k] = IF asserts /\ ~(globalTid = 0 /\ k = 0) THEN "aborted" ELSE "run"]
    /\ ompLast' = OmpCall("__kmpc_end_master", k, globalTid, 0, FALSE)
    /\ UNCHANGED <<userNumDevice, deviceReq, reduceVars, loopVars, levelVars, exitCode>>
    /\ UNCHANGED <<sysVars, forkVars, barrierVars, criticalVars, distVars>>

------------------------------------------------------------------------------
\* sizes of the teams whose members read and set their level
LevelTeamSizes == {1, 2}

\* what the guest passes to the calls that set a preference of the level
PrefArgs == {-1, 0, 2}

\* an omp_set_num_threads that resizes the team it is called in
SetWanted_Resizes(level, numThreads) ==
    IF numThreads > 0 THEN [level EXCEPT !.num_threads = numThreads] ELSE level

\* body of omp_set_num_threads
SetWanted(level, numThreads) ==
    IF numThreads > 0 THEN [level EXCEPT !.wanted_num_threads = numThreads] ELSE level

\* a push that stores whatever it is given
SetPushed_Unchecked(level, numThreads) == [level EXCEPT !.pushed_num_threads = numThreads]

\* body of __kmpc_push_num_threads
SetPushed(level, numThreads) ==
    IF numThreads > 0 THEN [level EXCEPT !.pushed_num_threads = numThreads] ELSE level

\* body of omp_set_max_active_levels
SetMaxActive(level, n) ==
    IF n < 0 THEN level ELSE [level EXCEPT !.max_active_level = n]

\* what a call of team thread k that only writes its level leaves alone
level_call_leaves(k) ==
    /\ pc[k] = "run"
    /\ UNCHANGED <<forkPc, forkCall, threadArgs, platformThreads, joined, numErrors>>
    /\ UNCHANGED <<userNumDevice, deviceReq, ompLast, reduceVars, loopVars, mastered, topVars, procVars>>
    /\ UNCHANGED <<sysVars, threadVars, barrierVars, criticalVars, distVars>>

\* omp_set_num_threads of team thread k, whose thisLevel is the team's level
omp_set_num_threads(k, numThreads) ==
    /\ level_call_leaves(k)
    /\ nextLevel' = SetWanted(nextLevel, numThreads)

\* __kmpc_push_num_threads of team thread k
kmpc_push_num_threads(k, numThreads) ==
    /\ level_call_leaves(k)
    /\ nextLevel' = SetPushed(nextLevel, numThreads)

\* omp_set_max_active_levels of team thread k
omp_set_max_active_levels(k, n) ==
    /\ level_call_leaves(k)
    /\ nextLevel' = SetMaxActive(nextLevel, n)

\* __kmpc_fork_call of team thread k in local mode, from its call to its return:
\* the level of the nested team is the call's own and gone when the nested threads,
\* whose microtask returns 0, are joined; what stays is the reset of the pushed count
nested_fork_call(k) ==
    /\ level_call_leaves(k)
    /\ 1 = userNumDevice
    /\ nextLevel' = [nextLevel EXCEPT !.pushed_num_threads = -1]

\* what a getter of team thread k leaves alone
getter_leaves(k) ==
    /\ pc[k] = "run"
    /\ UNCHANGED <<userNumDevice, deviceReq, reduceVars, loopVars, levelVars>>
    /\ UNCHANGED <<sysVars, forkVars, threadVars, barrierVars, criticalVars, distVars>>

\* omp_get_num_threads of team thread k
omp_get_num_threads(k) ==
    /\ getter_leaves(k)
    /\ ompLast' = OmpCall("omp_get_num_threads", k, 0, nextLevel.num_threads, FALSE)

\* omp_get_level of team thread k
omp_get_level(k) ==
    /\ getter_leaves(k)
    /\ ompLast' = OmpCall("omp_get_level", k, 0, nextLevel.depth, FALSE)

------------------------------------------------------------------------------
(* The level of the main thread, from one parallel region to the next *)

\* what the main thread passes to the calls that set a preference of its level
TopArgs == {-1, 0, 2, 3}

\* get_next_level_num_threads: one thread past the active levels, else the pushed
\* size, else the wanted size, else the size of the level itself
get_next_level_num_threads(level) ==
    IF level.depth >= level.max_active_level THEN 1
    ELSE IF level.pushed_num_threads > 0 THEN level.pushed_num_threads
    ELSE IF level.wanted_num_threads > 0 THEN level.wanted_num_threads
    ELSE level.num_threads

\* one entry of topLog
TopCall(call, mode, n) == [call |-> call, mode |-> mode, n |-> n]

\* what a call of the main thread outside a parallel region leaves alone
top_call_leaves ==
    /\ forkPc = "idle"
    /\ Len(topLog) < MaxTopCalls
    /\ UNCHANGED <<userNumDevice, deviceReq, ompLast, reduceVars, loopVars, mastered, procVars>>
    /\ UNCHANGED <<sysVars, forkVars, threadVars, barrierVars, criticalVars>>

\* __kmpc_push_num_threads of the main thread
top_push_num_threads(numThreads) ==
    /\ top_call_leaves
    /\ topLevel' = SetPushed(topLevel, numThreads)
    /\ topLog' = Append(topLog, TopCall("__kmpc_push_num_threads", "", numThreads))
    /\ UNCHANGED distVars

\* omp_set_num_threads of the main thread
top_set_num_threads(numThreads) ==
    /\ top_call_leaves
    /\ topLevel' = SetWanted(topLevel, numThreads)
    /\ topLog' = Append(topLog, TopCall("omp_set_num_threads", "", numThreads))
    /\ UNCHANGED distVars

\* omp_set_max_active_levels of the main thread
top_set_max_active_levels(level) ==
    /\ top_call_leaves
    /\ topLevel' = SetMaxActive(topLevel, level)
    /\ topLog' = Append(topLog, TopCall("omp_set_max_active_levels", "", level))
    /\ UNCHANGED distVars

\* __kmpc_fork_call of the main thread from entry to return, for a region whose
\* threads return 0 and reduce nothing: the distributed branch sizes the team,
\* zeroes the accumulator, snapshots on the first fork and throws on a later one;
\* the local branch sizes the team and resets the pushed size
top_fork_call ==
    /\ top_call_leaves
    /\ IF 1 # userNumDevice
       THEN /\ reduceKey' = SetLong(reduceKey, 0)
            /\ IF activeSnapshotKey = ""
               THEN /\ activeSnapshotKey' = SnapshotKey(CallId)
                    /\ guestWord' = SetLong(reduceKey, 0)
                    /\ topLog' = Append(topLog, TopCall("__kmpc_fork_call", "distributed",
                                                        get_next_level_num_threads(topLevel)))
               ELSE /\ topLog' = Append(topLog, TopCall("__kmpc_fork_call", "bound",
                                                        get_next_level_num_threads(topLevel)))
                    /\ UNCHANGED <<activeSnapshotKey, guestWord>>
            /\ UNCHANGED topLevel
            /\ UNCHANGED <<chainedThreads, partials, awaitVars>>
       ELSE /\ topLevel' = [topLevel EXCEPT !.pushed_num_threads = -1]
            /\ topLog' = Append(topLog, TopCall("__kmpc_fork_call", "local",
                                                get_next_level_num_threads(topLevel)))
            /\ UNCHANGED distVars

------------------------------------------------------------------------------
(* Guest executions of one host process *)

\* two calls that worker threads of the process execute, unrelated to each other
Guests == {"A", "B"}

\* getExecutingCall()->id() of each
GuestCallId(g) == IF g = "A" THEN "1" ELSE "2"

\* what the team of each adds to the accumulator
GuestPartial(g) == IF g = "A" THEN 3 ELSE 4

\* what a guest passes to omp_set_default_device
GuestDevices == {1, -2}

\* a guest execution that has made no call: asked is whether its own latest
\* omp_set_default_device, if it made one, left one device or several, mode is what its
\* latest fork_call did, snapshots counts its own snapshots, sum is what its team
\* has added to the accumulator and word what the fork_call stored in its guest int
NoGuestCalls ==
    [pc |-> "idle", asked |-> "never", forks |-> 0, mode |-> "none", snapshots |-> 0,
     sum |-> 0, word |-> -1]

\* what a call of guest g leaves alone
guest_call_leaves ==
    /\ UNCHANGED <<reduceVars, loopVars, mastered, topVars, poolVars>>
    /\ UNCHANGED <<sysVars, forkVars, threadVars, barrierVars, criticalVars>>
    /\ UNCHANGED <<chainedThreads, partials, awaitVars, guestWord>>

\* omp_set_default_device of guest g: the device count is the process's
guest_set_default_device(g, defaultDeviceNumber) ==
    /\ guests[g].pc = "idle"
    /\ set_default_device(defaultDeviceNumber)
    /\ guests' = [guests EXCEPT ![g].asked =
                    IF Abs(defaultDeviceNumber) > userMaxNumDevices
                    THEN @
                    ELSE IF 1 # Abs(defaultDeviceNumber) THEN "several" ELSE "one"]
    /\ UNCHANGED <<activeSnapshotKey, reduceKey>>
    /\ guest_call_leaves

\* __kmpc_fork_call of guest g up to the submission of its team, or all of it in
\* the local branch: the device count, the snapshot key and the accumulator it
\* meets are the process's and the store's
guest_fork_begin(g) ==
    /\ guests[g].pc = "idle"
    /\ guests[g].forks < MaxGuestForks
    /\ IF 1 # userNumDevice
       THEN /\ reduceKey' = SetLong(reduceKey, 0)
            /\ IF activeSnapshotKey = ""
               THEN /\ activeSnapshotKey' = SnapshotKey(GuestCallId(g))
                    /\ guests' = [guests EXCEPT ![g].pc = "team",
                                                ![g].forks = @ + 1,
                                                ![g].mode = "distributed",
                                                ![g].snapshots = @ + 1,
                                                ![g].sum = 0,
                                                ![g].word = -1]
               ELSE /\ guests' = [guests EXCEPT ![g].pc = "thrown",
                                                ![g].forks = @ + 1,
                                                ![g].mode = "bound"]
                    /\ UNCHANGED activeSnapshotKey
       ELSE /\ guests' = [guests EXCEPT ![g].forks = @ + 1, ![g].mode = "local"]
            /\ UNCHANGED <<activeSnapshotKey, reduceKey>>
    /\ UNCHANGED <<userNumDevice, deviceReq, ompLast>>
    /\ guest_call_leaves

\* the sub-invocations of guest g's team add their partial values:
\* redis.incrByLong(REDUCE_KEY, partial)
guest_team_reduces(g) ==
    /\ guests[g].pc = "team"
    /\ guests[g].sum = 0
    /\ reduceKey' = reduceKey + GuestPartial(g)
    /\ guests' = [guests EXCEPT ![g].sum = GuestPartial(g)]
    /\ UNCHANGED <<userNumDevice, deviceReq, ompLast, activeSnapshotKey>>
    /\ guest_call_leaves

\* the end of guest g's distributed fork_call, its sub-invocations having
\* returned 0: *reducePtr = redis.getLong(REDUCE_KEY)
guest_fork_store(g) ==
    /\ guests[g].pc = "team"
    /\ guests' = [guests EXCEPT ![g].pc = "idle", ![g].word = reduceKey]
    /\ UNCHANGED <<userNumDevice, deviceReq, ompLast, activeSnapshotKey, reduceKey>>
    /\ guest_call_leaves

------------------------------------------------------------------------------
(* The worker thread pool (src/src/worker/WorkerThreadPool.cpp) *)

\* the std::thread members of the pool
BackgroundThreads == {"globalQueueThread", "sharingQueueThread", "mpiThread", "stateThread", "poolThread"}

\* std::thread::joinable: started and not joined
Joinable(state) == state \in {"running", "exited"}

\* the main thread in one of its calls, and in shutdown() at its n-th join
MainAt(at, n) == [at |-> at, n |-> n]

\* what the steps of the pool leave alone
pool_leaves ==
    /\ UNCHANGED <<sysVars, forkVars, threadVars, barrierVars, criticalVars, distVars>>
    /\ UNCHANGED <<userNumDevice, deviceReq, ompLast, reduceVars, loopVars, mastered, topVars, guests>>

\* the main thread starts background thread t
StartThread(t) ==
    /\ mainPc.at = "idle"
    /\ bgThreads[t] = "none"
    /\ bgThreads' = [bgThreads EXCEPT ![t] = "running"]

\* startGlobalQueueThread up to globalQueueThread.join()
startGlobalQueueThread ==
    /\ StartThread("globalQueueThread")
    /\ mainPc' = MainAt("startGlobalQueueThread", 0)
    /\ UNCHANGED <<_shutdown, threadTokenPool, poolPc, threadIdx, poolThreads>>
    /\ pool_leaves

\* the global queue thread leaves its loop: the flag is set, or no message came
\* within the timeout
globalQueueThread_exits ==
    /\ bgThreads["globalQueueThread"] = "running"
    /\ bgThreads' = [bgThreads EXCEPT !["globalQueueThread"] = "exited"]
    /\ UNCHANGED <<_shutdown, threadTokenPool, poolPc, threadIdx, poolThreads, mainPc>>
    /\ pool_leaves

\* globalQueueThread.join() returns and with it startGlobalQueueThread
startGlobalQueueThread_joins ==
    /\ mainPc.at = "startGlobalQueueThread"
    /\ bgThreads["globalQueueThread"] = "exited"
    /\ bgThreads' = [bgThreads EXCEPT !["globalQueueThread"] = "joined"]
    /\ mainPc' = MainAt("idle", 0)
    /\ UNCHANGED <<_shutdown, threadTokenPool, poolPc, threadIdx, poolThreads>>
    /\ pool_leaves

\* startSharingThread, startMpiThread, and startStateServer in state mode inmemory
startLoopThread(t) ==
    /\ t \in {"sharingQueueThread", "mpiThread", "stateThread"}
    /\ StartThread(t)
    /\ UNCHANGED <<_shutdown, threadTokenPool, poolPc, threadIdx, poolThreads, mainPc>>
    /\ pool_leaves

\* while (!this->isShutdown()) of the sharing, MPI and state threads: the thread
\* comes back to the test after each message, timeout or poll and leaves once the
\* flag is set
loopThread_exits(t) ==
    /\ t \in {"sharingQueueThread", "mpiThread", "stateThread"}
    /\ bgThreads[t] = "running"
    /\ _shutdown
    /\ bgThreads' = [bgThreads EXCEPT ![t] = "exited"]
    /\ UNCHANGED <<_shutdown, threadTokenPool, poolPc, threadIdx, poolThreads, mainPc>>
    /\ pool_leaves

\* startThreadPool
startThreadPool ==
    /\ StartThread("poolThread")
    /\ poolPc' = "while"
    /\ UNCHANGED <<_shutdown, threadTokenPool, threadIdx, poolThreads, mainPc>>
    /\ pool_leaves

\* the pool thread: while (!this->isShutdown())
pool_while ==
    /\ poolPc = "while"
    /\ poolPc' = IF _shutdown THEN "join" ELSE "getToken"
    /\ UNCHANGED <<_shutdown, threadTokenPool, bgThreads, threadIdx, poolThreads, mainPc>>
    /\ pool_leaves

\* int threadIdx = this->getThreadToken(): blocks while no token is free
pool_getThreadToken(token) ==
    /\ poolPc = "getToken"
    /\ Len(poolThreads) < MaxSpawns \/ _shutdown
    /\ token \in threadTokenPool
    /\ threadTokenPool' = threadTokenPool \ {token}
    /\ threadIdx' = token
    /\ poolPc' = "check"
    /\ UNCHANGED <<_shutdown, bgThreads, poolThreads, mainPc>>
    /\ pool_leaves

\* a second test that always lets the spawn go on
Shutdown_NotChecked(flag) == FALSE

\* if (this->isShutdown()) break
Shutdown_Checked(flag) == flag

\* the second test of the flag, after the token
pool_check ==
    /\ poolPc = "check"
    /\ poolPc' = IF Shutdown_Checked(_shutdown) THEN "join" ELSE "spawn"
    /\ UNCHANGED <<_shutdown, threadTokenPool, bgThreads, threadIdx, poolThreads, mainPc>>
    /\ pool_leaves

\* poolThreads.emplace_back(std::thread(...)): a worker with the token threadIdx;
\* late keeps whether shutdown had been asked for when it was spawned
pool_spawn ==
    /\ poolPc = "spawn"
    /\ poolThreads' = Append(poolThreads, [threadIdx |-> threadIdx, state |-> "running",
                                           late |-> _shutdown])
    /\ poolPc' = "while"
    /\ UNCHANGED <<_shutdown, threadTokenPool, bgThreads, threadIdx, mainPc>>
    /\ pool_leaves

\* a release that puts back the lowest token whatever the worker was given
ReleaseToken_Lowest(pool, token) == pool \cup {0}

\* threadTokenPool.releaseToken(w.threadIdx)
ReleaseToken(pool, token) == pool \cup {token}

\* worker i: w.run() returns and the worker releases its token
worker_finishes(i) ==
    /\ i \in 1 .. Len(poolThreads)
    /\ poolThreads[i].state = "running"
    /\ threadTokenPool' = ReleaseToken(threadTokenPool, poolThreads[i].threadIdx)
    /\ poolThreads' = [poolThreads EXCEPT ![i].state = "finished"]
    /\ UNCHANGED <<_shutdown, bgThreads, poolPc, threadIdx, mainPc>>
    /\ pool_leaves

\* the workers the pool thread has not joined yet
Unjoined == {i \in 1 .. Len(poolThreads) : poolThreads[i].state # "joined"}

\* for (auto &t : poolThreads) t.join(), one worker at a time, and the end of the
\* pool thread after the last
pool_join ==
    /\ poolPc = "join"
    /\ IF Unjoined = {}
       THEN /\ poolPc' = "done"
            /\ bgThreads' = [bgThreads EXCEPT !["poolThread"] = "exited"]
            /\ UNCHANGED poolThreads
       ELSE LET i == CHOOSE j \in Unjoined : \A m \in Unjoined : j <= m
            IN  /\ poolThreads[i].state = "finished"
                /\ poolThreads' = [poolThreads EXCEPT ![i].state = "joined"]
                /\ UNCHANGED <<poolPc, bgThreads>>
    /\ UNCHANGED <<_shutdown, threadTokenPool, threadIdx, mainPc>>
    /\ pool_leaves

\* the joins of shutdown(), in its order
ShutdownJoins == <<"globalQueueThread", "stateThread", "sharingQueueThread", "poolThread">>

\* shutdown(): _shutdown = true
shutdown ==
    /\ mainPc.at = "idle"
    /\ ~_shutdown
    /\ _shutdown' = TRUE
    /\ mainPc' = MainAt("shutdown", 1)
    /\ UNCHANGED <<threadTokenPool, bgThreads, poolPc, threadIdx, poolThreads>>
    /\ pool_leaves

\* shutdown() at its n-th join: if (t.joinable()) t.join(), and the return after
\* the last
shutdown_join ==
    /\ mainPc.at = "shutdown"
    /\ LET t == ShutdownJoins[mainPc.n]
       IN  IF Joinable(bgThreads[t])
           THEN /\ bgThreads[t] = "exited"
                /\ bgThreads' = [bgThreads EXCEPT ![t] = "joined"]
           ELSE UNCHANGED bgThreads
    /\ mainPc' = IF mainPc.n = Len(ShutdownJoins)
                 THEN MainAt("returned", 0)
                 ELSE MainAt("shutdown", mainPc.n + 1)
    /\ UNCHANGED <<_shutdown, threadTokenPool, poolPc, threadIdx, poolThreads>>
    /\ pool_leaves

------------------------------------------------------------------------------
(* Specifications *)

\* the worker process starts with stdin, stdout and stderr open
Init ==
    /\ openFds = [t \in Threads |-> {}]
    /\ started = {"A"}
    /\ hostFds = {0, 1, 2}
    /\ granted = [t \in Threads |-> {}]
    /\ numPages = InitPages
    /\ unmapped = {}
    /\ brkReturned = {}
    /\ last = NoCall
    /\ forkPc = "idle"
    /\ forkCall = [argc |-> 0, nextNumThreads |-> 1]
    /\ nextLevel = ThisLevel
    /\ threadArgs = << >>
    /\ platformThreads = 0
    /\ joined = 0
    /\ numErrors = 0
    /\ pc = [k \in TeamIds |-> "none"]
    /\ exitCode = [k \in TeamIds |-> 0]
    /\ calls = [k \in TeamIds |-> 0]
    /\ returned = [k \in TeamIds |-> 0]
    /\ slotAtEntry = [k \in TeamIds |-> 0]
    /\ barrierUses = 0
    /\ slotCount = 0
    /\ criticalSection = -1
    /\ shared = 0
    /\ tmp = [k \in TeamIds |-> 0]
    /\ incs = [k \in TeamIds |-> 0]
    /\ activeSnapshotKey = ""
    /\ reduceKey = 0
    /\ chainedThreads = [i \in TeamIds |-> NotSubmitted]
    /\ partials = [i \in TeamIds |-> 0]
    /\ awaited = 0
    /\ outcome = "none"
    /\ failedWaits = 0
    /\ returnCode = 0
    /\ notified = [awaiting |-> 0, finished |-> 0]
    /\ guestWord = GuestWordBefore
    /\ userNumDevice = 1
    /\ deviceReq = [called |-> FALSE, arg |-> 0]
    /\ ompLast = NoOmpCall
    /\ reduceMutex = -1
    /\ reduces = [k \in TeamIds |-> 0]
    /\ loopIn = NoLoop
    /\ words = [k \in TeamIds |-> Fresh(NoLoop)]
    /\ mastered = [k \in TeamIds |-> -1]
    /\ topLevel = ThisLevel
    /\ topLog = << >>
    /\ guests = [g \in Guests |-> NoGuestCalls]
    /\ _shutdown = FALSE
    /\ threadTokenPool = 0 .. (nThreads - 1)
    /\ bgThreads = [t \in BackgroundThreads |-> "none"]
    /\ poolPc = "none"
    /\ threadIdx = -1
    /\ poolThreads = << >>
    /\ mainPc = MainAt("idle", 0)

\* the socketcall ops whose handler reads a descriptor from the argument array
FdCalls == {sc_connect, sc_bind, sc_send, sc_recv, sc_sendto, sc_recvfrom, sc_getsockname}

\* the descriptor-facing surface and the team threads
Next ==
    \/ \E t \in Threads, path \in Paths, flags \in Flags, mode \in Modes :
         syscall_open(t, path, flags, mode)
    \/ \E t \in Threads, fd \in FdArgs : syscall_fcntl64(t, fd)
    \/ \E t \in Threads, fd \in FdArgs : syscall_read(t, fd)
    \/ \E t \in Threads, fd \in FdArgs : syscall_close(t, fd)
    \/ \E t \in Threads, nfds \in 0 .. 2, fd \in FdArgs : syscall_poll(t, nfds, fd)
    \/ \E t \in Threads, fd \in FdArgs : syscall_ioctl(t, fd)
    \/ \E t \in Threads, fd \in FdArgs : syscall_writev(t, fd)
    \/ \E t \in Threads, call \in FdCalls, fd \in FdArgs : syscall_socketcall(t, call, fd)
    \/ \E t \in Threads, call \in Calls \ FdCalls : syscall_socketcall(t, call, -1)
    \/ \E t \in Threads, clockId \in ClockIds : syscall_clock_gettime(t, clockId)
    \/ \E p \in Threads, c \in Threads : createThread(p, c)

Spec == Init /\ [][Next]_vars

\* the syscalls that only throw, beside the calls that fill the registry and grow the memory
NextTrap ==
    \/ \E t \in Threads, path \in Paths, flags \in Flags, mode \in Modes :
         syscall_open(t, path, flags, mode)
    \/ \E t \in Threads, fd \in FdArgs : syscall_close(t, fd)
    \/ \E t \in Threads : syscall_socketcall(t, sc_socket, -1)
    \/ \E t \in Threads, name \in Unsupported, a \in AnyArgs : syscall_unsupported(t, name, a)
    \/ \E t \in Threads, addr \in MmapAddrs, length \in MmapLengths, fd \in {-1, 3} :
         syscall_mmap(t, addr, length, fd)
    \/ \E p \in Threads, c \in Threads : createThread(p, c)

SpecTrap == Init /\ [][NextTrap]_vars

\* the memory syscalls of one guest thread
NextMem ==
    \/ \E t \in Threads, addr \in MmapAddrs, length \in MmapLengths, fd \in {-1, 3} :
         syscall_mmap(t, addr, length, fd)
    \/ \E t \in Threads, addr \in MunmapAddrs, length \in MmapLengths :
         syscall_munmap(t, addr, length)
    \/ \E t \in Threads, addr \in BrkAddrs : syscall_brk(t, addr)

SpecMem == Init /\ [][NextMem]_vars

\* one local fork_call whose team threads only run and return
NextFork ==
    \/ \E n \in TeamSizes, argc \in 0 .. MaxArgc : fork_call_begin(n, argc)
    \/ fork_call_createThread
    \/ fork_call_joinThread
    \/ fork_call_end
    \/ \E k \in TeamIds, code \in RetCodes : microtask_return(k, code)

SpecFork == Init /\ [][NextFork]_vars

\* distributed fork_calls of one guest call and their sub-invocations
NextDist ==
    \/ omp_set_default_device(-2)
    \/ \E v \in StaleSums : other_fork_leaves(v)
    \/ \E n \in TeamSizes, argc \in 0 .. 1 : dist_fork_begin(n, argc)
    \/ dist_callFunction
    \/ \E i \in TeamIds : sub_reduce_nowait(i)
    \/ \E i \in TeamIds, code \in RetCodes : sub_finish(i, code)
    \/ dist_notifyAwaiting
    \/ \E o \in Outcomes : dist_getFunctionResult(o)
    \/ dist_notifyFinishedAwaiting
    \/ dist_store

SpecDist == Init /\ [][NextDist]_vars

\* one local fork_call whose microtask uses the barrier and a critical section
NextTeam ==
    \/ \E n \in TeamSizes : fork_call_begin(n, 1)
    \/ fork_call_createThread
    \/ fork_call_joinThread
    \/ fork_call_end
    \/ \E k \in TeamIds : kmpc_barrier(k)
    \/ \E k \in TeamIds : barrier_wake(k)
    \/ \E k \in TeamIds : kmpc_critical(k)
    \/ \E k \in TeamIds : guest_load(k)
    \/ \E k \in TeamIds : guest_store(k)
    \/ \E k \in TeamIds : kmpc_end_critical(k)
    \/ \E k \in TeamIds : microtask_return(k, 0)

SpecTeam == Init /\ [][NextTeam]_vars

\* one local fork_call whose microtask only meets at the barrier
NextBarrier ==
    \/ \E n \in TeamSizes : fork_call_begin(n, 1)
    \/ fork_call_createThread
    \/ fork_call_joinThread
    \/ fork_call_end
    \/ \E k \in TeamIds : kmpc_barrier(k)
    \/ \E k \in TeamIds : barrier_wake(k)
    \/ \E k \in TeamIds : microtask_return(k, 0)

\* the host schedules every thread that can run: a team thread woken in the barrier
\* does come back from it
SpecBarrier ==
    Init /\ [][NextBarrier]_vars /\ \A k \in TeamIds : WF_vars(barrier_wake(k))

\* the guest chooses its devices and forks: either branch of __kmpc_fork_call
NextMode ==
    \/ \E n \in DeviceArgs : omp_set_default_device(n)
    \/ \E n \in TeamSizes : fork_call_begin(n, 1)
    \/ \E n \in TeamSizes : dist_fork_begin(n, 1)
    \/ fork_call_createThread
    \/ fork_call_joinThread
    \/ fork_call_end
    \/ \E k \in TeamIds : microtask_return(k, 0)

SpecMode == Init /\ [][NextMode]_vars

\* device counts the guest of the reduction runs asks for
ReduceDevices == {1, 2}

\* a local team whose threads reduce, while the guest may change its device count
NextReduce ==
    \/ \E n \in ReduceDevices : omp_set_default_device(n)
    \/ \E n \in TeamSizes : fork_call_begin(n, 1)
    \/ fork_call_createThread
    \/ fork_call_joinThread
    \/ fork_call_end
    \/ \E k \in TeamIds : kmpc_reduce(k)
    \/ \E k \in TeamIds, stateMode \in StateModes : kmpc_reduce_nowait(k, stateMode)
    \/ \E k \in TeamIds : kmpc_end_reduce(k)
    \/ \E k \in TeamIds : kmpc_end_reduce_nowait(k)
    \/ \E k \in TeamIds : microtask_return(k, 0)

SpecReduce == Init /\ [][NextReduce]_vars

\* a local team whose threads come to one statically scheduled loop
NextLoop ==
    \/ \E in \in LoopInputs : loop_enter(in)
    \/ \E n \in TeamSizes : fork_call_begin(n, 1)
    \/ fork_call_createThread
    \/ \E k \in TeamIds, trap \in BOOLEAN : kmpc_for_static_init_4(k, trap)
    \/ \E k \in TeamIds : kmpc_for_static_fini(k)

SpecLoop == Init /\ [][NextLoop]_vars

\* a local team whose threads come to master sections
NextMaster ==
    \/ \E n \in TeamSizes : fork_call_begin(n, 1)
    \/ fork_call_createThread
    \/ fork_call_joinThread
    \/ fork_call_end
    \/ \E k \in TeamIds, globalTid \in GlobalTids : kmpc_master(k, globalTid)
    \/ \E k \in TeamIds, globalTid \in GlobalTids, asserts \in BOOLEAN :
          kmpc_end_master(k, globalTid, asserts)
    \/ \E k \in TeamIds : microtask_return(k, 0)

SpecMaster == Init /\ [][NextMaster]_vars

\* a local team whose threads read and set their level, fork nested teams and
\* meet in the barrier, the critical section and reductions
NextLevel ==
    \/ \E n \in LevelTeamSizes : fork_call_begin(n, 1)
    \/ fork_call_createThread
    \/ fork_call_joinThread
    \/ fork_call_end
    \/ \E k \in TeamIds : omp_get_num_threads(k)
    \/ \E k \in TeamIds : omp_get_level(k)
    \/ \E k \in TeamIds, n \in PrefArgs : omp_set_num_threads(k, n)
    \/ \E k \in TeamIds, n \in PrefArgs : kmpc_push_num_threads(k, n)
    \/ \E k \in TeamIds, n \in PrefArgs : omp_set_max_active_levels(k, n)
    \/ \E k \in TeamIds : nested_fork_call(k)
    \/ \E k \in TeamIds : kmpc_barrier(k)
    \/ \E k \in TeamIds : barrier_wake(k)
    \/ \E k \in TeamIds : kmpc_critical(k)
    \/ \E k \in TeamIds : guest_load(k)
    \/ \E k \in TeamIds : guest_store(k)
    \/ \E k \in TeamIds : kmpc_end_critical(k)
    \/ \E k \in TeamIds : kmpc_reduce(k)
    \/ \E k \in TeamIds : kmpc_end_reduce(k)
    \/ \E k \in TeamIds : microtask_return(k, 0)

SpecLevel == Init /\ [][NextLevel]_vars

\* a local team of one or two whose threads come to the barrier, the critical
\* section and the reductions of both kinds
NextSync ==
    \/ \E n \in ReduceDevices : omp_set_default_device(n)
    \/ \E n \in LevelTeamSizes : fork_call_begin(n, 1)
    \/ fork_call_createThread
    \/ fork_call_joinThread
    \/ fork_call_end
    \/ \E k \in TeamIds : kmpc_barrier(k)
    \/ \E k \in TeamIds : barrier_wake(k)
    \/ \E k \in TeamIds : kmpc_critical(k)
    \/ \E k \in TeamIds : guest_load(k)
    \/ \E k \in TeamIds : guest_store(k)
    \/ \E k \in TeamIds : kmpc_end_critical(k)
    \/ \E k \in TeamIds : kmpc_reduce(k)
    \/ \E k \in TeamIds, stateMode \in StateModes : kmpc_reduce_nowait(k, stateMode)
    \/ \E k \in TeamIds : kmpc_end_reduce(k)
    \/ \E k \in TeamIds : kmpc_end_reduce_nowait(k)
    \/ \E k \in TeamIds : microtask_return(k, 0)

SpecSync == Init /\ [][NextSync]_vars

\* the main thread sets preferences and the device count between parallel regions
NextPush ==
    \/ \E n \in ReduceDevices : omp_set_default_device(n)
    \/ \E n \in TopArgs : top_push_num_threads(n)
    \/ \E n \in TopArgs : top_set_num_threads(n)
    \/ \E n \in TopArgs : top_set_max_active_levels(n)
    \/ top_fork_call

SpecPush == Init /\ [][NextPush]_vars

\* two guest executions in one host process
NextGuests ==
    \/ \E g \in Guests, n \in GuestDevices : guest_set_default_device(g, n)
    \/ \E g \in Guests : guest_fork_begin(g)
    \/ \E g \in Guests : guest_team_reduces(g)
    \/ \E g \in Guests : guest_fork_store(g)

SpecGuests == Init /\ [][NextGuests]_vars

\* the worker pool from its construction to the return of shutdown()
NextPool ==
    \/ startGlobalQueueThread
    \/ globalQueueThread_exits
    \/ startGlobalQueueThread_joins
    \/ \E t \in BackgroundThreads : startLoopThread(t)
    \/ \E t \in BackgroundThreads : loopThread_exits(t)
    \/ startThreadPool
    \/ pool_while
    \/ \E token \in 0 .. (nThreads - 1) : pool_getThreadToken(token)
    \/ pool_check
    \/ pool_spawn
    \/ \E i \in 1 .. (MaxSpawns + 1) : worker_finishes(i)
    \/ pool_join
    \/ shutdown
    \/ shutdown_join

SpecPool == Init /\ [][NextPool]_vars

\* every thread of the pool that can take a step takes one in the end, and every
\* worker comes back from run()
PoolFairness ==
    /\ WF_vars(globalQueueThread_exits)
    /\ WF_vars(startGlobalQueueThread_joins)
    /\ \A t \in BackgroundThreads : WF_vars(loopThread_exits(t))
    /\ WF_vars(pool_while)
    /\ WF_vars(\E token \in 0 .. (nThreads - 1) : pool_getThreadToken(token))
    /\ WF_vars(pool_check)
    /\ WF_vars(pool_spawn)
    /\ \A i \in 1 .. (MaxSpawns + 1) : WF_vars(worker_finishes(i))
    /\ WF_vars(pool_join)
    /\ WF_vars(shutdown_join)

SpecPoolFair == SpecPool /\ PoolFairness

------------------------------------------------------------------------------
(* Claims about the descriptor registry and open *)

\* the calls that check the descriptor they are given: read, close, fcntl64,
\* poll on its one pollfd, and seven socketcall ops
TakesCheckedFd(c) ==
    \/ c.op \in {"read", "close", "fcntl64"}
    \/ c.op = "poll" /\ c.len = 1
    \/ /\ c.op = "socketcall"
       /\ c.call \in {sc_connect, sc_bind, sc_send, sc_recv, sc_sendto, sc_recvfrom,
                      sc_getsockname}

\* C1: whatever happened before, a checked call on a descriptor that is not in the
\* calling thread's registry throws, makes no host call and changes neither the
\* registries nor the host's descriptors.
C1_UnownedFdTraps ==
    [][(TakesCheckedFd(last') /\ last'.fd \notin openFds[last'.thread])
         => /\ last'.res = "trap"
            /\ last'.host = "none"
            /\ UNCHANGED <<openFds, hostFds>>]_vars

\* C1 witness: recvfrom on an open descriptor the thread does not own, by a thread
\* that owns another one, has thrown.
C1_Witness ==
    /\ last.op = "socketcall" /\ last.call = sc_recvfrom
    /\ last.res = "trap" /\ last.host = "none"
    /\ last.fd \in hostFds
    /\ last.fd \notin openFds[last.thread]
    /\ openFds[last.thread] # {}

\* C2: a descriptor is in a thread's registry exactly when open or socket on that
\* thread obtained it from the host (a result >= 0) and the thread has not closed
\* it since: a failed call registers nothing, and everything obtained is registered.
C2_RegistryIsWhatWasObtained ==
    \A t \in Threads : openFds[t] = granted[t]

\* C3: open with a non-zero mode, or with mode 0 and a path other than /etc/hosts
\* and /etc/resolv.conf, throws, opens no host file and leaves the registries alone.
C3_OpenPolicyTraps ==
    [][(/\ last'.op = "open"
        /\ \/ last'.mode # 0
           \/ last'.path \notin {"/etc/hosts", "/etc/resolv.conf"})
         => /\ last'.res = "trap"
            /\ last'.host = "none"
            /\ UNCHANGED <<openFds, hostFds>>]_vars

\* C3 witness: open("/etc/hosts") with mode 0644 has thrown in a thread that owns a
\* descriptor.
C3_Witness ==
    /\ last.op = "open" /\ last.path = "/etc/hosts" /\ last.mode # 0
    /\ last.res = "trap"
    /\ openFds[last.thread] # {}

\* C4: when close(fd) returns 0 the descriptor has left the caller's registry; a
\* descriptor enters a registry only by being returned to that thread by open or
\* socket; and while it is outside, every checked call on it throws.
C4_ClosedFdStaysOut ==
    [][/\ (last'.op = "close" /\ last'.res = "ret" /\ last'.ret = 0)
            => last'.fd \notin openFds'[last'.thread]
       /\ \A t \in Threads : \A fd \in openFds'[t] \ openFds[t] :
            /\ last'.thread = t
            /\ last'.res = "ret" /\ last'.ret = fd
            /\ last'.op = "open" \/ (last'.op = "socketcall" /\ last'.call = sc_socket)
       /\ (TakesCheckedFd(last') /\ last'.fd \notin openFds[last'.thread])
            => last'.res = "trap"]_vars

\* C4 witness: a close of an owned host descriptor has returned 0.
C4_Witness ==
    /\ last.op = "close" /\ last.res = "ret" /\ last.ret = 0
    /\ last.fd >= 0 /\ last.hostRet = 0
    /\ last.fd \notin openFds[last.thread]

------------------------------------------------------------------------------
(* Claims about thread isolation, socketcall policy and unsupported syscalls *)

\* every call that is handed a descriptor: the checked ones, writev and ioctl
TakesFd(c) == TakesCheckedFd(c) \/ c.op \in {"writev", "ioctl"}

\* a call by one thread on a descriptor another thread holds and the caller does not
OnForeignFd(c) ==
    \E a \in Threads \ {c.thread} :
      /\ c.fd \in granted[a]
      /\ c.fd \notin granted[c.thread]

\* a thread's calls leave every other thread's registry as it was
OthersRegistriesKept ==
    \A u \in Threads \ {last'.thread} :
      (u \in started /\ u \in started') => openFds'[u] = openFds[u]

\* a thread created by fork_call starts without its parent's descriptors
NewThreadOwnsNothingOfParent ==
    \A n \in started' \ started : openFds'[n] \cap openFds[last'.thread] = {}

C6_ClientOnlyPolicy ==
    [][last'.op = "socketcall" =>
         /\ last'.call \in {4, 5}
              => (last'.res = "trap" /\ last'.host = "none"
                  /\ UNCHANGED <<openFds, hostFds>>)
         /\ (last'.call \in {7, 8, 13, 14, 15, 16, 17, 18, 19, 20}
             \/ last'.call \notin 1 .. 20)
              => (/\ last'.res = "ret" /\ last'.ret = 0
                  /\ last'.host = "none" /\ ~last'.wrote
                  /\ UNCHANGED <<openFds, hostFds>>)]_vars

\* C6 witness: listen has thrown in a thread that owns a socket.
C6_Witness ==
    /\ last.op = "socketcall" /\ last.call = sc_listen /\ last.res = "trap"
    /\ \E fd \in openFds[last.thread] : fd >= 0

\* C7: every unsupported syscall, and mmap with fd other than -1, throws and leaves
\* the registries, the host's descriptors and the memory size as they were.
C7_UnsupportedTraps ==
    [][(\/ last'.op \in {"readv", "llseek", "futex", "fstat64", "stat64", "access",
                         "madvise", "mremap", "gettimeofday", "exit", "exit_group",
                         "gettid", "tkill", "rt_sigprocmask", "unsupported_syscall"}
        \/ (last'.op = "mmap" /\ last'.fd # -1))
         => /\ last'.res = "trap"
            /\ last'.host = "none"
            /\ UNCHANGED <<openFds, hostFds, numPages>>]_vars

\* C7 witness: mmap of a file descriptor has thrown after the memory has grown, in a
\* thread that owns a descriptor.
C7_Witness ==
    /\ last.op = "mmap" /\ last.fd # -1 /\ last.res = "trap"
    /\ numPages > InitPages
    /\ openFds[last.thread] # {}

------------------------------------------------------------------------------
(* Claims about the memory syscalls *)

\* ceil(length / 65536), by its definition: the least n with n * 65536 >= length
LeastPagesCovering(length) ==
    CHOOSE n \in 0 .. (length \div 65536 + 1) :
      /\ n * 65536 >= length
      /\ \A m \in 0 .. (n - 1) : m * 65536 < length

\* C8: mmap with fd = -1 ignores addr; when the growth succeeds the memory has
\* grown by exactly ceil(length / 65536) pages and the call returns the old page
\* count times 65536.
C8_MmapGrowsByCeil ==
    [][(last'.op = "mmap" /\ last'.fd = -1 /\ last'.hostRet >= 0)
         => /\ numPages' = numPages + LeastPagesCovering(last'.len)
            /\ last'.res = "ret"
            /\ last'.ret = numPages * 65536]_vars

\* C8 witness: with 2 pages, mmap of 130000 bytes has returned 2 * 65536 and the
\* memory has 4 pages.
C8_Witness ==
    /\ last.op = "mmap" /\ last.fd = -1 /\ last.len = 130000
    /\ last.pre = 2
    /\ last.res = "ret" /\ last.ret = 2 * 65536
    /\ numPages = 4

\* C9: mmap(_, length, fd = -1) returning addr, followed by munmap(addr, length),
\* leaves the page count equal to the page count before the mmap.
C9_MmapMunmapRestoresSize ==
    [][(/\ last.op = "mmap" /\ last.res = "ret"
        /\ last'.op = "munmap"
        /\ last'.addr = last.ret
        /\ last'.len = last.len)
         => numPages' = last.pre]_vars

\* C9, what the code does: the munmap has returned 0 and the memory is as large as
\* the mmap left it, one page more than before.
C9_Witness ==
    /\ last.op = "munmap" /\ last.res = "ret" /\ last.ret = 0
    /\ last.addr = InitPages * 65536 /\ last.len = 65536
    /\ InitPages \in unmapped
    /\ numPages = InitPages + 1

\* C10: however brk, mmap and munmap calls are interleaved, each brk returns at
\* least what every earlier brk returned.
C10_BrkMonotonic ==
    [][last'.op = "brk" => \A b \in brkReturned : last'.ret >= b]_vars

\* C10 witness: after an munmap and brk calls that returned two different breaks,
\* a brk below the current break has returned.
C10_Witness ==
    /\ last.op = "brk" /\ last.res = "ret"
    /\ last.addr < last.ret
    /\ Cardinality(brkReturned) >= 2
    /\ unmapped # {}

\* C11: brk(addr) takes target = addr / 65536; when target <= the current page
\* count it returns current * 65536 and the memory is unchanged, otherwise the
\* memory has grown by exactly target - current pages and the call returns the
\* break as it was before the growth.
C11_BrkGrowsToTarget ==
    [][last'.op = "brk"
         => /\ last'.res = "ret"
            /\ last'.ret = numPages * 65536
            /\ IF PageIndex(last'.addr) <= numPages
               THEN numPages' = numPages
               ELSE numPages' = numPages + (PageIndex(last'.addr) - numPages)]_vars

\* C11, what the code does: a brk above the memory's maximum has called growMemory,
\* which refused, and has returned the old break with the memory as large as before.
C11_Witness ==
    /\ last.op = "brk" /\ last.res = "ret"
    /\ PageIndex(last.addr) > MaxPages
    /\ last.host = "growMemory" /\ last.hostRet = -1
    /\ numPages = last.pre
    /\ last.ret = last.pre * 65536

------------------------------------------------------------------------------
(* Claims about what the guest gets back from the host *)

\* the host calls the supported syscalls delegate to
HostDelegates ==
    {"read", "close", "poll", "writev", "socket", "connect", "bind", "send", "recv",
     "sendto", "recvfrom", "getsockname", "clock_gettime"}

\* C12: every supported syscall that delegates to a host kernel call returns the
\* host call's return code to the guest, also when the host call failed: it neither
\* traps nor hands back another value.
C12_HostReturnCodeReachesGuest ==
    last.host \in HostDelegates => (last.res = "ret" /\ last.ret = last.hostRet)

\* C12, what the code does: clock_gettime with a clock id the host refuses (-1) has
\* returned 0 to the guest and written the shadow timespec.
C12_Witness ==
    /\ last.op = "clock_gettime" /\ last.clock \notin HostClocks
    /\ last.hostRet = -1
    /\ last.res = "ret" /\ last.ret = 0
    /\ last.wrote

\* C13 as stated: writev writes to host stdout whatever fd the guest passes, never
\* consults or changes the registry, and never writes to the descriptor the guest
\* names.
C13_WritevNeverOnNamedFd ==
    [][last'.op = "writev"
         => /\ last'.res = "ret"
            /\ last'.host = "writev" /\ last'.hostFd = 1
            /\ openFds' = openFds /\ hostFds' = hostFds
            /\ last'.hostFd # last'.fd]_vars

\* C13: writev writes to host stdout (descriptor 1) whatever fd the guest passes,
\* owned or not, and never consults or changes the registry; the write lands on the
\* descriptor the guest names only when the guest names 1.
C13_WritevOnlyToStdout ==
    [][last'.op = "writev"
         => /\ last'.res = "ret"
            /\ last'.host = "writev" /\ last'.hostFd = 1
            /\ openFds' = openFds /\ hostFds' = hostFds
            /\ (last'.hostFd = last'.fd <=> last'.fd = 1)]_vars

\* C13 witness: a thread that owns descriptor 3 has called writev(3) and writev
\* has written to descriptor 1.
C13_Witness ==
    /\ last.op = "writev" /\ last.fd = 3
    /\ 3 \in openFds[last.thread]
    /\ last.host = "writev" /\ last.hostFd = 1
    /\ last.res = "ret"

------------------------------------------------------------------------------
(* Claims about the local fork *)

\* the team threads that exist
Created == {k \in TeamIds : pc[k] # "none"}

\* C16: in local mode fork_call creates exactly num_threads team threads with the
\* distinct thread numbers 0 .. num_threads - 1, all bound to the same new team,
\* each invoked with [tid, argc, ptr0, .., ptr_{argc-1}] read from argsPtr, and
\* fork_call neither returns nor fails before every one of them has finished.
C16_ForkCreatesTeamAndJoinsIt ==
    forkPc \in {"returned", "thrown"}
      => /\ Cardinality(Created) = forkCall.nextNumThreads
         /\ {threadArgs[k].tid : k \in Created} = 0 .. (forkCall.nextNumThreads - 1)
         /\ \A k \in Created :
              /\ threadArgs[k].level = nextLevel.id
              /\ nextLevel.id # ThisLevel.id
              /\ nextLevel.num_threads = forkCall.nextNumThreads
              /\ threadArgs[k].funcArgs =
                   <<threadArgs[k].tid, forkCall.argc>>
                     \o [i \in 1 .. forkCall.argc |-> Pointers(forkCall.argc)[i]]
              /\ pc[k] = "done"

\* C16 witness: a fork_call with argc 2 and a team of 3 has returned, and the last
\* thread was given <<2, 2, ptr0, ptr1>>.
C16_Witness ==
    /\ forkPc = "returned"
    /\ forkCall.nextNumThreads = 3 /\ forkCall.argc = 2
    /\ Len(threadArgs[2].funcArgs) = 4
    /\ threadArgs[2].funcArgs[1] = 2
    /\ \A k \in 0 .. 2 : pc[k] = "done"

\* C17: after joining all team threads, fork_call fails fatally if any thread
\* returned a non-zero code and returns normally only if all returned zero, for
\* every combination of codes.
C17_FailsIffAnyNonZero ==
    forkPc \in {"returned", "thrown"}
      => (forkPc = "thrown" <=> \E k \in Created : exitCode[k] # 0)

\* C17, what the code does: fork_call has returned normally with one thread having
\* returned 1 and another -1.
C17_Witness ==
    /\ forkPc = "returned"
    /\ \E k \in Created : exitCode[k] = 1
    /\ \E k \in Created : exitCode[k] = -1
    /\ numErrors = 0

------------------------------------------------------------------------------
(* Claims about the team's barrier and critical section *)

\* every team member has called the barrier at least r times
AllArrived(r) == \A j \in Team : calls[j] >= r

\* every team member has come back from its r-th barrier call
AllReturned(r) == \A j \in Team : returned[j] >= r

\* no thread is back from a round that some team member has not called yet
NoEarlyReturn == \A k \in Team, j \in Team : returned[k] <= calls[j]

\* a thread leaves the barrier's wait only when every member has arrived for its round
BlockedUntilAllArrive ==
    \A k \in Team : (pc[k] = "wait" /\ pc'[k] # "wait") => AllArrived(calls[k])

\* C14: for every team of size N >= 1, no thread returns from barrier_wait before
\* all N members have called it for that round; while fewer than N have arrived the
\* arrived threads stay blocked; once all N have arrived each of them eventually
\* returns.
C14_BarrierRendezvous ==
    /\ []NoEarlyReturn
    /\ [][BlockedUntilAllArrive]_vars
    /\ \A r \in 1 .. MaxRounds : AllArrived(r) ~> AllReturned(r)

\* C14 witness: in a team of 3 every thread is back from the first round and one
\* of them waits in the second.
C14_Witness ==
    /\ nextLevel.num_threads = 3
    /\ AllReturned(1)
    /\ slotCount = 1
    /\ \E k \in Team : pc[k] = "wait" /\ calls[k] = 2

\* the team threads between __kmpc_critical and __kmpc_end_critical
InCritical == {k \in TeamIds : pc[k] \in {"locked", "loaded", "stored"}}

\* C15: in a team of N > 1 at most one thread is between __kmpc_critical and
\* __kmpc_end_critical at any time; and when each of the N threads has done one
\* load-increment-store of the shared int inside critical, the int has grown by
\* exactly N when fork_call returns.
C15_CriticalIsExclusive ==
    nextLevel.num_threads > 1
      => /\ Cardinality(InCritical) <= 1
         /\ (forkPc = "returned" /\ \A k \in Team : incs[k] = 1)
              => shared = nextLevel.num_threads

\* C15 witness: a team of 3 has incremented the int three times and fork_call has
\* returned.
C15_Witness ==
    /\ forkPc = "returned"
    /\ nextLevel.num_threads = 3
    /\ \A k \in Team : incs[k] = 1
    /\ shared = 3

------------------------------------------------------------------------------
(* Claims about the distributed fork *)

\* fork_call has decided its outcome after the await loop
Decided == forkPc \in {"thrown", "store", "returned", "crashed"}

\* the master is between notifyAwaiting and notifyFinishedAwaiting
InWait == forkPc \in {"waiting", "waited"}

\* C18: in distributed mode fork_call awaits every submitted sub-invocation before
\* it decides; each wait that ends with a non-zero result, a timeout or another
\* error counts as exactly one error; and fork_call throws after the last wait if
\* and only if that count is above zero.
C18_AwaitsAllThenDecides ==
    /\ Decided
         => /\ platformThreads = forkCall.nextNumThreads
            /\ awaited = platformThreads
            /\ numErrors = failedWaits
            /\ (forkPc = "thrown" <=> failedWaits > 0)
    /\ forkPc = "await" => numErrors = failedWaits

\* C18 witness: of three sub-invocations the first returned non-zero and the other
\* two returned 0; all three were awaited and fork_call has thrown with one error.
C18_Witness ==
    /\ forkPc = "thrown"
    /\ forkCall.nextNumThreads = 3 /\ awaited = 3
    /\ chainedThreads[0] = [state |-> "done", returnvalue |-> 1]
    /\ chainedThreads[1] = [state |-> "done", returnvalue |-> 0]
    /\ chainedThreads[2] = [state |-> "done", returnvalue |-> 0]
    /\ outcome = "result"
    /\ numErrors = 1

\* C19: the master calls notifyAwaiting before each getFunctionResult and
\* notifyFinishedAwaiting after it, whatever the wait's end; outside a wait, and so
\* whenever fork_call exits, the two have been called equally often, once per
\* sub-invocation awaited.
C19_NotifyBalanced ==
    IF InWait
    THEN /\ notified.awaiting = notified.finished + 1
         /\ notified.awaiting = awaited + 1
    ELSE /\ notified.awaiting = notified.finished
         /\ notified.finished = awaited
         /\ forkPc \in {"thrown", "store", "returned", "crashed", "bound"}
              => awaited = forkCall.nextNumThreads

\* C19 witness: fork_call has thrown after a last wait that timed out, and both
\* notifications were made twice.
C19_Witness ==
    /\ forkPc = "thrown"
    /\ outcome = "timeout"
    /\ notified = [awaiting |-> 2, finished |-> 2]

RECURSIVE SumTo(_, _)
\* f[0] + .. + f[n-1]
SumTo(f, n) == IF n = 0 THEN 0 ELSE f[n - 1] + SumTo(f, n - 1)

\* C20: the accumulator is zero before any sub-invocation is submitted; when all
\* sub-invocations succeed fork_call stores the accumulator's final value, the sum
\* of the partial values the sub-invocations added, into the guest word argument
\* zero points to; when any fails the guest word is left as it was.
C20_AccumulatorStoredOnSuccess ==
    /\ (forkPc = "submit" /\ platformThreads = 0) => reduceKey = 0
    /\ forkPc = "returned"
         => /\ forkCall.argc >= 1
            /\ guestWord = reduceKey
            /\ guestWord = SumTo(partials, forkCall.nextNumThreads)
    /\ forkPc = "thrown" => guestWord = GuestWordBefore

\* C20 witness: three sub-invocations added 1, 2 and 3 and succeeded, and the guest
\* word holds 6.
C20_Witness ==
    /\ forkPc = "returned"
    /\ forkCall.nextNumThreads = 3
    /\ \A i \in 0 .. 2 : partials[i] = i + 1
    /\ guestWord = 6

------------------------------------------------------------------------------
(* Claims about the device switch *)

\* the guest asked for several devices in parallel: omp_set_default_device(-N), N > 1
AskedParallel == deviceReq.called /\ deviceReq.arg < -1

\* C21: fork_call takes the distributed path only when the guest's most recent
\* accepted omp_set_default_device call had a negative argument below -1; with no
\* call, a non-negative argument or -1 it takes the local path; and a call whose
\* absolute value exceeds the device limit leaves the device count as it was
C21_DistributedOnlyAfterNegative ==
    [][/\ (forkPc # "create" /\ forkPc' = "create") => ~AskedParallel
       /\ (forkPc' \in {"submit", "bound"} /\ forkPc' # forkPc) => AskedParallel
       /\ (ompLast'.call = "omp_set_default_device"
             /\ Abs(ompLast'.arg) > userMaxNumDevices) => userNumDevice' = userNumDevice]_vars

\* a distributed fork after omp_set_default_device with a non-negative argument
C21_Witness ==
    /\ forkPc = "submit"
    /\ deviceReq.called
    /\ deviceReq.arg \in {0, 2, 3}

------------------------------------------------------------------------------
(* Claims about reductions *)

\* the step is team thread k's call of the begin function `call`
ReduceBegins(k, call) ==
    /\ reduces'[k] # reduces[k]
    /\ ompLast'.call = call
    /\ ompLast'.tid = k

\* the step is team thread k's call of one of the two end functions
ReduceEnds(k) ==
    /\ pc[k] \in {"reduce", "reduce_nowait"}
    /\ pc'[k] # pc[k]

\* team thread k is combining after __kmpc_reduce locked the mutex for it
CombinesLocked(k) == pc[k] = "reduce" /\ nextLevel.num_threads > 1

\* at most one thread of the team combines under the mutex
OneCombines == \A j, k \in TeamIds : CombinesLocked(j) /\ CombinesLocked(k) => j = k

\* what __kmpc_reduce does in a team of more than one thread
ReduceLocks(k) ==
    (ReduceBegins(k, "__kmpc_reduce") /\ nextLevel.num_threads > 1) =>
        /\ ompLast'.result = 1
        /\ reduceMutex = -1
        /\ reduceMutex' = k

\* __kmpc_reduce in a solo team takes no lock and returns solo
ReduceSolo(k, solo) ==
    (ReduceBegins(k, "__kmpc_reduce") /\ nextLevel.num_threads = 1) =>
        /\ ompLast'.result = solo
        /\ reduceMutex' = reduceMutex

C22_SoloWitness ==
    /\ nextLevel.num_threads = 1
    /\ pc[0] = "reduce"
    /\ ompLast.result = 1
    /\ reduceMutex = -1

\* C23: __kmpc_reduce_nowait adds the partial value to the external accumulator and
\* returns empty_reduce_block exactly when the device count says distributed; with
\* one device it leaves the accumulator alone and selects as __kmpc_reduce does
\* (critical under reduce_mutex for a team of several, empty for a solo team)
C23_NowaitAccumulatesOnlyDistributed ==
    [][\A k \in TeamIds : ReduceBegins(k, "__kmpc_reduce_nowait") =>
          IF 1 # userNumDevice
          THEN /\ reduceKey' = reduceKey + PartialOf(k)
               /\ ompLast'.result = empty_reduce_block
          ELSE /\ reduceKey' = reduceKey
               /\ IF nextLevel.num_threads > 1
                  THEN ompLast'.result = 1 /\ reduceMutex' = k
                  ELSE reduceMutex' = reduceMutex]_vars

\* a team thread of a guest that never asked for devices has added its partial
\* value to the external accumulator
C23_Witness ==
    /\ ~deviceReq.called
    /\ userNumDevice = 1
    /\ ompLast.call = "__kmpc_reduce_nowait"
    /\ ompLast.result = empty_reduce_block
    /\ reduceKey = PartialOf(ompLast.tid)

\* C24: with several devices the end functions always throw and leave reduce_mutex
\* alone; with one device they never throw
C24_EndReduceThrowsIffDistributed ==
    [][\A k \in TeamIds : ReduceEnds(k) =>
          IF 1 # userNumDevice
          THEN pc'[k] = "thrown" /\ ompLast'.thrown /\ reduceMutex' = reduceMutex
          ELSE pc'[k] = "run" /\ ~ompLast'.thrown]_vars

\* an end function has thrown in a thread that holds the mutex
C24_Witness ==
    \E k \in TeamIds :
        /\ pc[k] = "thrown"
        /\ ompLast.call \in {"__kmpc_end_reduce", "__kmpc_end_reduce_nowait"}
        /\ ompLast.tid = k
        /\ reduceMutex = k

\* the end call of thread k releases reduce_mutex when k took it in its begin
\* call, and leaves it alone otherwise
EndReleasesOwn(k) ==
    ReduceEnds(k) =>
        IF reduceMutex = k THEN reduceMutex' = -1 ELSE reduceMutex' = reduceMutex

\* reduce_mutex is given up in the end call of its holder only
OnlyHolderUnlocks ==
    \A k \in TeamIds : (reduceMutex = k /\ reduceMutex' # k) => ReduceEnds(k)

\* every member of the team is through with its reductions
ReductionsOver ==
    /\ forkPc \in {"join", "returned", "thrown"}
    /\ \A k \in Team : pc[k] \in {"done", "thrown"}

\* C33: reduce_mutex is used in balanced pairs, in teams of every size and for the
\* blocking and the nowait calls alike: the end call releases the mutex exactly
\* when its caller took it in the matching begin call, nobody else unlocks it, and
\* the mutex is free once every member of the team is through with its reductions
C33_ReduceMutexBalanced ==
    /\ [][(\A k \in TeamIds : EndReleasesOwn(k)) /\ OnlyHolderUnlocks]_vars
    /\ [](ReductionsOver => reduceMutex = -1)

\* thread 0 of a team of two took reduce_mutex in __kmpc_reduce, the device count
\* was set to 2 meanwhile, __kmpc_end_reduce threw, and the team is over with the
\* mutex still held; thread 1 never got to reduce
C33_Witness ==
    /\ nextLevel.num_threads = 2
    /\ ReductionsOver
    /\ userNumDevice = 2
    /\ pc[0] = "thrown"
    /\ ompLast = OmpCall("__kmpc_end_reduce", 0, 0, 0, TRUE)
    /\ reduceMutex = 0
    /\ reduces[1] = 0

\* C33 while the device count stays at one: every end call releases the mutex its
\* caller holds
C33_BalancedWithOneDevice ==
    [][\A k \in TeamIds : (ReduceEnds(k) /\ userNumDevice = 1) =>
          /\ nextLevel.num_threads > 1 => reduceMutex = k /\ reduceMutex' = -1
          /\ nextLevel.num_threads = 1 => reduceMutex = -1 /\ reduceMutex' = -1]_vars

------------------------------------------------------------------------------
(* Claims about the static loop partition *)

\* the iterations of a loop of n trips from lower in steps of incr
IterationsFrom(lower, incr, n) == {lower + i * incr : i \in 0 .. (n - 1)}

\* how many iterations the range lower .. upper of a thread holds
RangeSize(w, incr) ==
    IF incr > 0
    THEN IF w.upper < w.lower THEN 0 ELSE ((w.upper - w.lower) \div incr) + 1
    ELSE IF w.upper > w.lower THEN 0 ELSE ((w.lower - w.upper) \div (-incr)) + 1

\* the iterations thread k runs
RangeOf(k) == IterationsFrom(words[k].lower, loopIn.incr, RangeSize(words[k], loopIn.incr))

\* tripCount of the loop the team has come to
LoopTrips == TripCount(loopIn.lower, loopIn.upper, loopIn.incr)

\* every thread of a team of several has come back from for_static_init_4 on
\* the loop, which has the schedule sch_static
AllInStaticLoop ==
    /\ nextLevel.num_threads > 1
    /\ loopIn.schedule = sch_static
    /\ loopIn.incr # 0
    /\ \A k \in Team : pc[k] = "loop"

\* the threads whose lastIter is set
LastIterThreads == {k \in Team : words[k].lastIter = 1}

RECURSIVE SumSizes(_)
\* the sizes of the ranges of threads 0 .. n - 1 added up
SumSizes(n) == IF n = 0 THEN 0 ELSE SumSizes(n - 1) + RangeSize(words[n - 1], loopIn.incr)

\* C25: with tripCount >= N > 1 the balanced sch_static partition gives the N
\* threads contiguous ranges that cover every iteration exactly once, of small + 1
\* iterations for tid < extras and small otherwise, stride = tripCount for every
\* thread and lastIter set for thread N - 1 only
C25_BalancedPartition ==
    (AllInStaticLoop /\ LoopTrips >= nextLevel.num_threads) =>
        LET N == nextLevel.num_threads
            small == LoopTrips \div N
            extras == LoopTrips % N
        IN  /\ UNION {RangeOf(k) : k \in Team} = IterationsFrom(loopIn.lower, loopIn.incr, LoopTrips)
            /\ \A j, k \in Team : j # k => RangeOf(j) \cap RangeOf(k) = {}
            /\ words[0].lower = loopIn.lower
            /\ \A k \in Team : k > 0 => words[k].lower = words[k - 1].upper + loopIn.incr
            /\ \A k \in Team : RangeSize(words[k], loopIn.incr) = small + (IF k < extras THEN 1 ELSE 0)
            /\ \A k \in Team : words[k].stride = LoopTrips
            /\ LastIterThreads = {N - 1}

\* three threads have the ranges 0..3, 4..6 and 7..9 of the loop over 0..9
C25_Witness ==
    /\ AllInStaticLoop
    /\ nextLevel.num_threads = 3
    /\ loopIn.lower = 0 /\ loopIn.upper = 9 /\ loopIn.incr = 1
    /\ words[0] = [lastIter |-> 0, lower |-> 0, upper |-> 3, stride |-> 10]
    /\ words[1] = [lastIter |-> 0, lower |-> 4, upper |-> 6, stride |-> 10]
    /\ words[2] = [lastIter |-> 1, lower |-> 7, upper |-> 9, stride |-> 10]

\* what C26 says of the ranges when tripCount < num_threads
SmallTripRanges ==
    /\ \A k \in Team : k < LoopTrips =>
          /\ words[k].lower = loopIn.lower + k * loopIn.incr
          /\ words[k].upper = words[k].lower
    /\ \A k \in Team : k >= LoopTrips => RangeSize(words[k], loopIn.incr) = 0
    /\ SumSizes(nextLevel.num_threads) = LoopTrips

C26_EmptyLoopWitness ==
    /\ AllInStaticLoop
    /\ LoopTrips = 0
    /\ LastIterThreads = {}

\* the step is team thread k's call of __kmpc_for_static_init_4
StaticInitCalled(k) == pc[k] = "run" /\ pc'[k] \in {"loop", "thrown", "trapped"}

\* the schedule of the loop is neither of the two that are implemented
OtherSchedule == loopIn.schedule \notin {sch_static_chunked, sch_static}

\* the call fails and leaves the four words as they were
FailsUnchanged(k) == pc'[k] \in {"thrown", "trapped"} /\ words'[k] = words[k]

\* C27: for_static_init_4 fails for every schedule other than sch_static_chunked
\* and sch_static, in a team of any size, 1 included, and leaves lastIter, lower,
\* upper and stride unchanged
C27_OtherScheduleAlwaysFails ==
    [][\A k \in TeamIds : (StaticInitCalled(k) /\ OtherSchedule) => FailsUnchanged(k)]_vars

\* C27 as the code has it: in a team of several threads the call fails and leaves
\* the words unchanged; in a team of one it returns before it looks at the schedule
C27_OtherScheduleFailsInTeams ==
    [][\A k \in TeamIds : (StaticInitCalled(k) /\ OtherSchedule) =>
          IF nextLevel.num_threads > 1
          THEN FailsUnchanged(k)
          ELSE pc'[k] = "loop" /\ words'[k] = SoloInit(words[k], loopIn.incr)]_vars

\* a thread of a team of several has thrown on another schedule, with a loop
\* whose increment is not zero
C27_Witness ==
    /\ OtherSchedule
    /\ nextLevel.num_threads > 1
    /\ loopIn.incr # 0
    /\ \E k \in Team : pc[k] = "thrown" /\ words[k] = Fresh(loopIn)

\* the thread of a solo team has come back from the call on another schedule
C27_SoloWitness ==
    /\ OtherSchedule
    /\ nextLevel.num_threads = 1
    /\ pc[0] = "loop"
    /\ words[0].lastIter = 1

\* sign(incr)
Sign(n) == IF n > 0 THEN 1 ELSE IF n < 0 THEN -1 ELSE 0

\* the step is the call of the thread of a solo team, with a non-zero increment
SoloInitCalled == nextLevel.num_threads = 1 /\ StaticInitCalled(0) /\ loopIn.incr # 0

\* C30: in a team of one for_static_init_4 sets lastIter, sets stride to
\* (upper - lower + 1) * sign(incr) and leaves lower and upper unchanged
C30_SoloStrideBySign ==
    [][SoloInitCalled =>
          /\ words'[0].lastIter = 1
          /\ words'[0].stride = (words[0].upper - words[0].lower + 1) * Sign(loopIn.incr)
          /\ words'[0].lower = words[0].lower
          /\ words'[0].upper = words[0].upper]_vars

\* C30 as the code has it: stride is upper - lower + 1 for a positive increment
\* and -(lower - upper + 1) for a negative one
C30_SoloStride ==
    [][SoloInitCalled =>
          /\ words'[0].lastIter = 1
          /\ words'[0].stride = (IF loopIn.incr > 0
                                  THEN words[0].upper - words[0].lower + 1
                                  ELSE -(words[0].lower - words[0].upper + 1))
          /\ words'[0].lower = words[0].lower
          /\ words'[0].upper = words[0].upper]_vars

\* a solo team on the loop from 3 down to 0: stride is -4
C30_Witness ==
    /\ nextLevel.num_threads = 1
    /\ pc[0] = "loop"
    /\ loopIn.lower = 3 /\ loopIn.upper = 0 /\ loopIn.incr = -1
    /\ words[0] = [lastIter |-> 1, lower |-> 3, upper |-> 0, stride |-> -4]

\* every thread of a team of several has come back from for_static_init_4 on
\* the loop, which has the schedule sch_static_chunked
AllInChunkedLoop ==
    /\ nextLevel.num_threads > 1
    /\ loopIn.schedule = sch_static_chunked
    /\ loopIn.incr # 0
    /\ \A k \in Team : pc[k] = "loop"

\* max(chunk, 1) of the loop the team has come to
LoopChunk == IF loopIn.chunk < 1 THEN 1 ELSE loopIn.chunk

\* the iterations of the loop the team has come to
LoopIterations == IterationsFrom(loopIn.lower, loopIn.incr, LoopTrips)

\* the iterations thread k runs when it goes from chunk to chunk by its stride
StridedChunks(k) ==
    {words[k].lower + c * words[k].stride + j * loopIn.incr :
        c \in 0 .. LoopTrips, j \in 0 .. (LoopChunk - 1)} \cap LoopIterations

\* the words sch_static_chunked leaves to each thread, and the first chunks side by side
ChunkedWords ==
    LET N == nextLevel.num_threads
        span == LoopChunk * loopIn.incr
    IN  /\ \A k \in Team :
              /\ words[k].stride = span * N
              /\ words[k].lower = loopIn.lower + span * k
              /\ words[k].upper = words[k].lower + span - loopIn.incr
              /\ RangeSize(words[k], loopIn.incr) = LoopChunk
        /\ \A k \in Team : k > 0 => words[k].lower = words[k - 1].upper + loopIn.incr
        /\ \A j, k \in Team : j # k => RangeOf(j) \cap RangeOf(k) = {}

\* the threads whose strided chunks hold the last iteration of the loop
FinalIterationThreads ==
    {k \in Team : LoopTrips > 0
                  /\ loopIn.lower + (LoopTrips - 1) * loopIn.incr \in StridedChunks(k)}

\* C31: for sch_static_chunked in a team of N > 1 thread tid has chunk' = max(chunk, 1),
\* span = chunk' * incr, stride = span * N, lower' = lower + span * tid and
\* upper' = lower' + span - incr, the first chunks of the N threads are disjoint and
\* contiguous, and lastIter is set exactly for the thread whose strided chunks hold
\* the final iteration of the loop
C31_ChunkedLastIterOwnsFinal ==
    AllInChunkedLoop =>
        /\ ChunkedWords
        /\ LastIterThreads = FinalIterationThreads

\* C31 for the loops that have an iteration: the thread with lastIter is thread
\* ((tripCount - 1) / chunk') mod N, the one whose strided chunks hold the final
\* iteration; a loop without iterations has the words of the formulas all the same
C31_ChunkedWithIterations ==
    AllInChunkedLoop =>
        /\ ChunkedWords
        /\ LoopTrips > 0 =>
              /\ LastIterThreads = FinalIterationThreads
              /\ LastIterThreads = {((LoopTrips - 1) \div LoopChunk) % nextLevel.num_threads}

\* a team of two on the chunked loop over 0 .. -1, which has no iteration: thread 1
\* has lastIter set
C31_Witness ==
    /\ AllInChunkedLoop
    /\ nextLevel.num_threads = 2
    /\ loopIn.lower = 0 /\ loopIn.upper = -1 /\ loopIn.incr = 1 /\ loopIn.chunk = 1
    /\ LoopTrips = 0
    /\ words[0] = [lastIter |-> 0, lower |-> 0, upper |-> 0, stride |-> 2]
    /\ words[1] = [lastIter |-> 1, lower |-> 1, upper |-> 1, stride |-> 2]

\* a team of three on the loop over 0 .. 9 in chunks of 2: the final iteration 9 is
\* in the fifth chunk, which is thread 1's second
C31_FinalChunkWitness ==
    /\ AllInChunkedLoop
    /\ nextLevel.num_threads = 3
    /\ loopIn.lower = 0 /\ loopIn.upper = 9 /\ loopIn.incr = 1 /\ loopIn.chunk = 2
    /\ words[1] = [lastIter |-> 1, lower |-> 2, upper |-> 3, stride |-> 6]
    /\ 9 \in StridedChunks(1)

------------------------------------------------------------------------------
(* Claims about a team of one *)

\* fork_call has built a team of one thread
SoloTeam == forkPc # "idle" /\ nextLevel.num_threads = 1

\* the barrier and the two mutexes of the team's level
TeamLocks == <<barrierUses, slotCount, criticalSection, reduceMutex>>

\* the calls the thread of a solo team can make where it stands are not held up
SoloNeverHeld ==
    SoloTeam =>
        /\ (pc[0] = "run" /\ calls[0] < MaxRounds) => ENABLED kmpc_barrier(0)
        /\ (pc[0] = "run" /\ incs[0] = 0) => ENABLED kmpc_critical(0)
        /\ pc[0] = "stored" => ENABLED kmpc_end_critical(0)
        /\ (pc[0] = "run" /\ reduces[0] < MaxReduces) =>
              /\ ENABLED kmpc_reduce(0)
              /\ ENABLED kmpc_reduce_nowait(0, "redis")
        /\ pc[0] = "reduce" => ENABLED kmpc_end_reduce(0)
        /\ pc[0] = "reduce_nowait" => ENABLED kmpc_end_reduce_nowait(0)
        /\ pc[0] # "wait"

\* C32: the thread of a team of one never blocks in the runtime: __kmpc_barrier,
\* __kmpc_critical, __kmpc_end_critical and the begin and end calls of a reduction
\* are never held up, come back in the step they are made in, and leave the
\* barrier, the critical section's mutex and reduce_mutex as they were
C32_SoloNeverBlocks ==
    /\ []SoloNeverHeld
    /\ [][SoloTeam =>
            /\ TeamLocks' = TeamLocks
            /\ pc'[0] # "wait"
            /\ calls'[0] # calls[0] => returned'[0] = returned[0] + 1]_vars

\* the thread of a solo team has been through the barrier, the critical section
\* and a reduction, and is back from __kmpc_end_reduce with every lock untouched
C32_Witness ==
    /\ SoloTeam
    /\ returned[0] = MaxRounds
    /\ incs[0] = 1
    /\ reduces[0] = 1
    /\ ompLast = OmpCall("__kmpc_end_reduce", 0, 0, 0, FALSE)
    /\ pc[0] = "run"
    /\ TeamLocks = <<0, 0, -1, -1>>

------------------------------------------------------------------------------
(* Claims about the snapshot of the distributed fork *)

\* the step is the entry of a distributed fork_call
DistForkEntered ==
    /\ forkPc \in {"idle", "returned", "thrown"}
    /\ forkPc' \in {"submit", "bound"}

\* the snapshot key changes in the first distributed fork_call only, which makes
\* it omp_snapshot_{callId}
SnapshotOnFirstOnly ==
    IF DistForkEntered /\ activeSnapshotKey = ""
    THEN activeSnapshotKey' = SnapshotKey(CallId)
    ELSE activeSnapshotKey' = activeSnapshotKey

\* C35: the parent module is snapshotted exactly once, on the first distributed
\* fork_call, under omp_snapshot_{callId}; a later distributed fork_call takes no
\* new snapshot and goes on to submit its team's sub-invocations with the recorded
\* key
C35_LaterForkReusesSnapshot ==
    [][/\ SnapshotOnFirstOnly
       /\ DistForkEntered => forkPc' = "submit"]_vars

\* C35 without its last part: a snapshot is taken on the first distributed
\* fork_call only, and a fork_call that finds the key set goes no further
C35_LaterForkThrows ==
    [][/\ SnapshotOnFirstOnly
       /\ DistForkEntered => (forkPc' = "submit" <=> activeSnapshotKey = "")]_vars

\* the first distributed fork_call has stored the sum and returned, and the second
\* has thrown "OMP already bound" with the snapshot key of the first still set
C35_Witness ==
    /\ forkPc = "bound"
    /\ activeSnapshotKey = SnapshotKey(CallId)
    /\ awaited = forkCall.nextNumThreads
    /\ numErrors = 0
    /\ guestWord # GuestWordBefore

------------------------------------------------------------------------------
(* Claims about guest executions of one process *)

\* the step is a fork_call of guest g, and the end of a distributed one
GuestForks(g) == guests'[g].forks = guests[g].forks + 1
GuestStores(g) == guests[g].pc = "team" /\ guests'[g].pc = "idle"

\* what the fork_call of a guest does going by the guest's own calls alone: local
\* unless the guest asked for several devices, and then distributed, failing if
\* the guest has a snapshot from an earlier fork_call of its own
OwnMode(guest) ==
    IF guest.asked # "several" THEN "local"
    ELSE IF guest.snapshots = 0 THEN "distributed" ELSE "bound"

\* the fork_calls of guest g go by g's own calls
ForksByOwnCalls(g) ==
    /\ GuestForks(g) => guests'[g].mode = OwnMode(guests[g])
    /\ GuestStores(g) => guests'[g].word = guests[g].sum

\* C37: whether the fork_call of a guest execution runs locally or distributed,
\* whether it fails, and the reduction value it reads back depend on that
\* guest's own calls only, whatever another guest execution of the same process
\* calls meanwhile
C37_GuestsIndependent ==
    [][\A g \in Guests : ForksByOwnCalls(g)]_vars

\* C37 for a guest whose process runs nothing else
C37_AloneGuest ==
    [][(guests["B"] = NoGuestCalls /\ guests'["B"] = NoGuestCalls) => ForksByOwnCalls("A")]_vars

\* guest B made no omp_set_default_device call, and its only fork_call threw "OMP
\* already bound" after guest A asked for devices and forked
C37_Witness ==
    /\ guests["A"].asked = "several"
    /\ guests["A"].mode = "distributed"
    /\ activeSnapshotKey = SnapshotKey(GuestCallId("A"))
    /\ guests["B"] = [NoGuestCalls EXCEPT !.pc = "thrown", !.forks = 1, !.mode = "bound"]

\* guest A's team added 3 and A read back 0, guest B's fork_call having zeroed the
\* accumulator in between
C37_ReadBackWitness ==
    /\ guests["A"].sum = GuestPartial("A")
    /\ guests["A"].word = 0
    /\ guests["B"].mode = "bound"

------------------------------------------------------------------------------
(* Claims about the worker thread pool *)

\* the workers that are between their spawn and the release of their token
RunningWorkers == {i \in 1 .. Len(poolThreads) : poolThreads[i].state = "running"}

\* the step spawns a worker, and worker i finishes in the step
Spawns == Len(poolThreads') = Len(poolThreads) + 1
Finishes(i) == poolThreads[i].state = "running" /\ poolThreads'[i].state = "finished"

\* a worker is spawned with the token the pool thread took, which is out of the
\* pool and with no other running worker
SpawnHoldsToken ==
    Spawns =>
        /\ poolThreads'[Len(poolThreads')].threadIdx = threadIdx
        /\ threadIdx \notin threadTokenPool
        /\ \A i \in RunningWorkers : poolThreads[i].threadIdx # threadIdx

\* a worker that finishes puts back the token it was given and no other
FinishReleasesOwn ==
    \A i \in 1 .. Len(poolThreads) :
        Finishes(i) =>
            /\ poolThreads[i].threadIdx \notin threadTokenPool
            /\ threadTokenPool' = threadTokenPool \cup {poolThreads[i].threadIdx}

\* never more running workers than tokens, each with a token of its own
WithinTokens ==
    /\ Cardinality(RunningWorkers) <= nThreads
    /\ \A i, j \in RunningWorkers : poolThreads[i].threadIdx = poolThreads[j].threadIdx => i = j

\* C38: the workers running at one time never exceed the nThreads of the
\* construction: a worker is spawned only with a token the pool thread obtained,
\* a worker that finishes releases exactly its token, and once shutdown has been
\* asked for no worker is spawned
C38_NoSpawnAfterShutdown ==
    /\ []WithinTokens
    /\ [][SpawnHoldsToken /\ FinishReleasesOwn]_vars
    /\ [][(_shutdown) => ~(Spawns)]_vars

\* C38 as the code has it: a worker is spawned after the request only by a pool
\* thread that had passed its second test of the flag before the request, which
\* happens once at most; a pool thread that has seen the flag spawns no worker
C38_OneLateSpawnAtMost ==
    /\ []WithinTokens
    /\ [][SpawnHoldsToken /\ FinishReleasesOwn]_vars
    /\ [][(_shutdown /\ Spawns) => poolPc = "spawn"]_vars
    /\ [][(poolPc \in {"join", "done"}) => ~(Spawns)]_vars
    /\ [](Cardinality({i \in 1 .. Len(poolThreads) : poolThreads[i].late}) <= 1)

\* every token is with a running worker, and one of the workers was spawned after
\* shutdown had been asked for
C38_Witness ==
    /\ _shutdown
    /\ Cardinality(RunningWorkers) = nThreads
    /\ threadTokenPool = {}
    /\ \E i \in RunningWorkers : poolThreads[i].late
    /\ \E i \in 1 .. Len(poolThreads) : poolThreads[i].state = "finished"

\* background thread t was never started or has been joined
NotLeftBehind(t) == bgThreads[t] \in {"none", "joined"}

\* shutdown() has returned
ShutdownReturned == mainPc.at = "returned"

\* C39: once shutdown() is called every background thread that was started
\* (global queue, sharing queue, MPI, state server, the pool thread and its
\* workers) sees the flag and leaves its loop, has been joined when shutdown()
\* returns, and shutdown() returns, with every token taken at the call as well
C39_ShutdownJoinsAll ==
    /\ [](ShutdownReturned => (\A t \in BackgroundThreads : NotLeftBehind(t)) /\ Unjoined = {})
    /\ \A t \in BackgroundThreads : (_shutdown ~> bgThreads[t] \in {"none", "exited", "joined"})
    /\ (_shutdown ~> ShutdownReturned)

\* C39 without the join of the MPI thread: the other threads and the workers are
\* joined at the return, every thread leaves its loop, and shutdown() returns
C39_AllButMpiJoined ==
    /\ [](ShutdownReturned =>
            (\A t \in BackgroundThreads \ {"mpiThread"} : NotLeftBehind(t)) /\ Unjoined = {})
    /\ \A t \in BackgroundThreads : (_shutdown ~> bgThreads[t] \in {"none", "exited", "joined"})
    /\ (_shutdown ~> ShutdownReturned)

\* shutdown() has returned, the pool thread and its workers are joined, and the
\* MPI thread that was started is still joinable
C39_Witness ==
    /\ ShutdownReturned
    /\ bgThreads["poolThread"] = "joined"
    /\ Len(poolThreads) > 0
    /\ Unjoined = {}
    /\ Joinable(bgThreads["mpiThread"])

\* shutdown() is called with every token taken and the pool thread waiting for one
C39_TokensTakenWitness ==
    /\ mainPc.at = "shutdown"
    /\ threadTokenPool = {}
    /\ poolPc = "getToken"
    /\ Cardinality(RunningWorkers) = nThreads

------------------------------------------------------------------------------
(* Claims about the main thread's level *)

\* the step is a fork_call of the main thread
TopForks ==
    /\ Len(topLog') = Len(topLog) + 1
    /\ topLog'[Len(topLog')].call = "__kmpc_fork_call"

\* entry i of the log is a fork_call, entry j one that got a team
IsFork(i) == topLog[i].call = "__kmpc_fork_call"
IsTeam(j) == IsFork(j) /\ topLog[j].mode # "bound"

\* a size was pushed between entries i and j of the log
PushedBetween(i, j) ==
    \E m \in (i + 1) .. (j - 1) :
        topLog[m].call = "__kmpc_push_num_threads" /\ topLog[m].n > 0

\* the sizes omp_set_num_threads was given before entry j, the latest last
WantedBefore(j) ==
    SelectSeq(SubSeq(topLog, 1, j - 1), LAMBDA e : e.call = "omp_set_num_threads" /\ e.n > 0)

\* the levels omp_set_max_active_levels was given before entry j, the latest last
ActiveBefore(j) ==
    SelectSeq(SubSeq(topLog, 1, j - 1), LAMBDA e : e.call = "omp_set_max_active_levels" /\ e.n >= 0)

\* the main thread's level is past the active levels at entry j
PastActive(j) ==
    IF ActiveBefore(j) = << >> THEN ThisLevel.depth >= ThisLevel.max_active_level
    ELSE ThisLevel.depth >= ActiveBefore(j)[Len(ActiveBefore(j))].n

\* the size of the team of entry j where no pushed size is left for it
UnpushedSize(j) ==
    IF PastActive(j) THEN 1
    ELSE IF WantedBefore(j) = << >> THEN ThisLevel.num_threads
    ELSE WantedBefore(j)[Len(WantedBefore(j))].n

\* C34: a pushed team size is consumed by exactly one parallel region: every
\* fork_call, local or distributed, leaves pushed_num_threads of the caller's level
\* reset, so of two fork_calls without a push between them the second is not sized
\* by the push
C34_PushedConsumedOnce ==
    /\ [][TopForks => topLevel'.pushed_num_threads = -1]_vars
    /\ [](\A i, j \in 1 .. Len(topLog) :
            (i < j /\ IsFork(i) /\ IsTeam(j) /\ ~PushedBetween(i, j)) =>
                topLog[j].n = UnpushedSize(j))

\* C34 for the local branch alone, with the device count at one throughout
C34_LocalForkConsumes ==
    [][(TopForks /\ 1 = userNumDevice) => topLevel'.pushed_num_threads = -1]_vars

\* one push of 2, a distributed fork of 2, and then, back on one device, a local
\* fork that is a team of 2 again
C34_Witness ==
    /\ topLog = <<TopCall("__kmpc_push_num_threads", "", 2),
                  TopCall("__kmpc_fork_call", "distributed", 2),
                  TopCall("__kmpc_fork_call", "local", 2)>>
    /\ topLevel.pushed_num_threads = -1
    /\ topLevel.wanted_num_threads = -1

\* one push of 2 and two local forks: a team of 2 and then a team of 1
C34_LocalWitness ==
    topLog = <<TopCall("__kmpc_push_num_threads", "", 2),
               TopCall("__kmpc_fork_call", "local", 2),
               TopCall("__kmpc_fork_call", "local", 1)>>

\* the step is a call of the main thread that sets a preference
TopSets == Len(topLog') = Len(topLog) + 1 /\ ~TopForks

\* what the preference call at the end of the log does to the level it found:
\* nothing with a value it does not take, otherwise the one field it names
PreferenceSet(level, e) ==
    CASE e.call = "__kmpc_push_num_threads" ->
            IF e.n <= 0 THEN level ELSE [level EXCEPT !.pushed_num_threads = e.n]
      [] e.call = "omp_set_num_threads" ->
            IF e.n <= 0 THEN level ELSE [level EXCEPT !.wanted_num_threads = e.n]
      [] e.call = "omp_set_max_active_levels" ->
            IF e.n < 0 THEN level ELSE [level EXCEPT !.max_active_level = e.n]

\* C36: omp_set_max_active_levels with a negative level, and __kmpc_push_num_threads
\* and omp_set_num_threads with a value <= 0, leave the level as it was; a valid
\* value changes the one preference the call names; no preference call changes
\* anything else of the fork engine, the team or the device count
C36_InvalidPreferenceIgnored ==
    [][TopSets =>
          /\ topLevel' = PreferenceSet(topLevel, topLog'[Len(topLog')])
          /\ UNCHANGED <<forkVars, threadVars, barrierVars, criticalVars, reduceVars>>
          /\ UNCHANGED <<userNumDevice, activeSnapshotKey, reduceKey>>]_vars

\* the main thread pushed 2 and then made the three calls with -1, 0 and -1: the
\* level holds the pushed 2 and is otherwise as it was built
C36_Witness ==
    /\ topLog = <<TopCall("__kmpc_push_num_threads", "", 2),
                  TopCall("__kmpc_push_num_threads", "", -1),
                  TopCall("omp_set_num_threads", "", 0),
                  TopCall("omp_set_max_active_levels", "", -1)>>
    /\ topLevel = [ThisLevel EXCEPT !.pushed_num_threads = 2]

------------------------------------------------------------------------------
(* Claims about the team's level *)

\* fork_call has built the team's level
TeamConstructed == forkPc # "idle"

\* C28: once the team is constructed its num_threads and depth stay what the
\* construction made them, whatever its members call (omp_set_num_threads,
\* __kmpc_push_num_threads, omp_set_max_active_levels, a nested fork_call, barrier,
\* critical, reduce), and omp_get_num_threads and omp_get_level return these values
\* to every member
C28_TeamSizeAndDepthFixed ==
    /\ TeamConstructed =>
          /\ nextLevel.num_threads = forkCall.nextNumThreads
          /\ nextLevel.depth = ThisLevel.depth + 1
    /\ ompLast.call = "omp_get_num_threads" => ompLast.result = forkCall.nextNumThreads
    /\ ompLast.call = "omp_get_level" => ompLast.result = ThisLevel.depth + 1

\* the members of a team of two have set the three preferences, been through the
\* barrier, the critical section and a reduction, and thread 1 still reads 2
C28_Witness ==
    /\ nextLevel.num_threads = 2
    /\ nextLevel.wanted_num_threads = 2
    /\ nextLevel.pushed_num_threads = 2
    /\ nextLevel.max_active_level = 0
    /\ returned[0] >= 1
    /\ incs[0] = 1
    /\ reduces[0] = 1
    /\ pc[0] = "done"
    /\ ompLast = OmpCall("omp_get_num_threads", 1, 0, 2, FALSE)

\* the team threads that have been told to run a master section
Masters == {k \in Team : mastered[k] = 1}

\* C29: __kmpc_master returns 1 exactly to the thread whose thread number is 0,
\* whatever globalTid the guest passes: only thread 0 is ever in a master section,
\* and once every member has called, exactly one has been told to run it
C29_MasterIsThreadZero ==
    /\ \A k \in TeamIds : mastered[k] # -1 => (mastered[k] = 1 <=> k = 0)
    /\ \A k \in TeamIds : pc[k] = "master" => k = 0
    /\ ompLast.call = "__kmpc_master" => (ompLast.result = 1 <=> ompLast.tid = 0)
    /\ (\A k \in Team : mastered[k] # -1) => Cardinality(Masters) = 1

\* every member of a team of three has called; thread 1 passed globalTid = 0 and
\* was not made master
C29_Witness ==
    /\ nextLevel.num_threads = MaxTeam
    /\ \A k \in Team : mastered[k] # -1
    /\ Masters = {0}
    /\ ompLast = OmpCall("__kmpc_master", 1, 0, 0, FALSE)

====
